---- MODULE Spec2Model ----
(***************************************************************************)
(* Feature-engineering and rating pipeline of the UCL match predictor:     *)
(*   ml/python/utils/feature_engineering.py  (ELOSystem)                   *)
(*   ml/python/data_extraction.py            (UCLDataExtractor)            *)
(*   ml/python/models/match_predictor.py     (feature_names, prepare)      *)
(*   ml/python/train.py, train_real_data.py  (what the models are fitted   *)
(*                                            on)                          *)
(*                                                                         *)
(* Numbers.  Python floats are modelled in fixed point:                    *)
(*   ratings            in units of 1/RatingScale ELO point                *)
(*   expected / actual  in units of 1/ProbScale                            *)
(*   probabilities      in percent                                         *)
(*   expected goals     in units of 1/XgScale goal                         *)
(*   form, possession   in units of 1/MeanScale (a mean of at most six     *)
(*                      integers is exact in sixtieths)                    *)
(***************************************************************************)
EXTENDS Integers, Sequences, FiniteSets, TLC

VARIABLES
    db,                \* rows of the matches table, in physical (insertion) order
    pc,                \* position of prepare_training_data / main
    matches_df,        \* frame returned by fetch_matches
    finished_matches,  \* matches_df filtered to status FINISHED
    ratings,           \* ELOSystem.ratings: team -> rating, materialised teams only
    elo_calls,         \* log of the update_ratings calls of the running ELO pass
    elo_ratings,       \* dict returned by calculate_elo_ratings
    i,                 \* loop position in the current pass; calls made so far
    X, y_outcome, y_xg_home, y_xg_away,   \* the lists built by the feature loop
    ret,               \* value returned by prepare_training_data, or by the
                       \* call made on a free-standing object
    success,           \* value returned by main
    csv,               \* the training data file data/real_training_data.csv
    models,            \* what the training scripts fitted and what came of it
    previous,          \* values returned by the earlier prepare_training_data calls
    runs,              \* the calculate_elo_ratings calls in progress side by side
    snapshot,          \* the mapping a caller got from get_all_ratings
    values             \* the list handed to RollingStatistics

vars == <<db, pc, matches_df, finished_matches, ratings, elo_calls, elo_ratings,
          i, X, y_outcome, y_xg_home, y_xg_away, ret, success, csv, models,
          previous, runs, snapshot, values>>

-----------------------------------------------------------------------------
(* Bounds of the model and program constants *)

NumTeams == 3          \* teams taking part
MaxExtra == 1          \* rows of the table beyond the training threshold
MaxCalls == 2          \* calls made on one free-standing ELOSystem and its mapping
MaxBuilds == 2         \* calls of prepare_training_data on one table
MaxRunLen == 2         \* matches in the frame of a call that runs beside another
MaxLen == 3            \* values in a list handed to RollingStatistics

MinFinished == 10      \* prepare_training_data: len(finished_matches) < 10
KFactor == 20          \* ELOSystem(k_factor=20, ...)
InitialRating == 1500  \* ELOSystem(..., initial_rating=1500)
HomeAdvantage == 100   \* update_ratings(..., home_advantage: float = 100)
DefaultElo == 1500     \* elo_ratings.get(team, 1500)
FormWindow == 5        \* calculate_team_form(..., n_matches: int = 5)
MinSamples == 10       \* train_on_real_data: len(df) < 10
XgColumnsReal == 12    \* train_on_real_data: X[:, :12]
XgColumnsSynthetic == 10   \* train_xg_models: X[:, :10]

RatingScale == 2 * 1000
ProbScale == 4 * 10000
XgScale == 2 * 5
MeanScale == 6 * 10
StdScale == 10 * 10        \* standard deviations in hundredths

None == "None"
Teams == 1..NumTeams

-----------------------------------------------------------------------------
(* Integer helpers *)

\* a / b rounded to nearest, for a >= 0, b > 0
RoundDiv(a, b) == (a + (b \div 2)) \div b

\* a / b truncated toward zero, b > 0
Quot(a, b) == IF a >= 0 THEN a \div b ELSE -((-a) \div b)

FixMul(a, b) == RoundDiv(a * b, ProbScale)

RECURSIVE SumSeq(_)
SumSeq(s) == IF s = <<>> THEN 0 ELSE Head(s) + SumSeq(Tail(s))

\* the last n elements of s (pandas .tail(n))
TailN(s, n) == IF Len(s) <= n THEN s ELSE SubSeq(s, Len(s) - n + 1, Len(s))

-----------------------------------------------------------------------------
(* ELOSystem *)

\* 10 ** (-(d / RatingScale) / 400) in units of 1/ProbScale, for d >= 0:
\* exp(-x) with x = (d / RatingScale) * ln(10) / 400, by x/4, a degree 6 Taylor
\* polynomial and two squarings.  ProbScale * ln(10) / 400 = 230.2585 per ELO
\* point and 0.1151 per rating unit; every product stays below 2^31.
Pow10Neg(d) ==
    LET x  == RoundDiv((d \div RatingScale) * 2302585 + (d % RatingScale) * 1151, 10000)
        u  == RoundDiv(x, 4)
        u2 == FixMul(u, u)
        u3 == FixMul(u2, u)
        u4 == FixMul(u3, u)
        u5 == FixMul(u4, u)
        u6 == FixMul(u5, u)
        e  == ProbScale - u + RoundDiv(u2, 2) - RoundDiv(u3, 6) + RoundDiv(u4, 24)
                - RoundDiv(u5, 120) + RoundDiv(u6, 720)
        e2 == FixMul(e, e)
    IN  FixMul(e2, e2)

\* 1 / (1 + 10 ** ((rating_b - rating_a) / 400))
expected_score(rating_a, rating_b) ==
    LET d == rating_b - rating_a
    IN  IF d <= 0
        THEN RoundDiv(ProbScale * ProbScale, ProbScale + Pow10Neg(-d))
        ELSE LET t == Pow10Neg(d) IN RoundDiv(ProbScale * t, ProbScale + t)

\* a read that gives an unknown team the rating zero
get_rating_zero_default(r, team) ==
    IF team \in DOMAIN r THEN r[team] ELSE 0

\* self.ratings[team]: a defaultdict read
get_rating(r, team) ==
    IF team \in DOMAIN r THEN r[team] ELSE InitialRating * RatingScale

\* K * (actual - expected), in rating units
RatingDelta(actual, expected) ==
    Quot(KFactor * RatingScale * (actual - expected), ProbScale)

\* update_ratings with the home-adjusted rating as the base of the new rating
new_ratings_adjusted_base(r, team_a, team_b, score_a, score_b, home_advantage) ==
    LET rating_a   == get_rating(r, team_a) + home_advantage
        rating_b   == get_rating(r, team_b)
        expected_a == expected_score(rating_a, rating_b)
        actual_a   == IF score_a > score_b THEN ProbScale
                      ELSE IF score_a < score_b THEN 0
                      ELSE ProbScale \div 2
    IN  << rating_a + RatingDelta(actual_a, expected_a),
           rating_b + RatingDelta(ProbScale - actual_a, ProbScale - expected_a) >>

\* update_ratings taking the expectation of team_b without the home advantage
new_ratings_unadjusted_expected_b(r, team_a, team_b, score_a, score_b, home_advantage) ==
    LET rating_a   == get_rating(r, team_a) + home_advantage
        rating_b   == get_rating(r, team_b)
        expected_a == expected_score(rating_a, rating_b)
        expected_b == expected_score(rating_b, get_rating(r, team_a))
        actual_a   == IF score_a > score_b THEN ProbScale
                      ELSE IF score_a < score_b THEN 0
                      ELSE ProbScale \div 2
        actual_b   == ProbScale - actual_a
    IN  << get_rating(r, team_a) + RatingDelta(actual_a, expected_a),
           get_rating(r, team_b) + RatingDelta(actual_b, expected_b) >>

\* the pair (new_rating_a, new_rating_b) computed by update_ratings
new_ratings(r, team_a, team_b, score_a, score_b, home_advantage) ==
    LET rating_a   == get_rating(r, team_a) + home_advantage
        rating_b   == get_rating(r, team_b)
        expected_a == expected_score(rating_a, rating_b)
        expected_b == ProbScale - expected_a
        actual_a   == IF score_a > score_b THEN ProbScale
                      ELSE IF score_a < score_b THEN 0
                      ELSE ProbScale \div 2
        actual_b   == IF score_a > score_b THEN 0
                      ELSE IF score_a < score_b THEN ProbScale
                      ELSE ProbScale \div 2
    IN  << get_rating(r, team_a) + RatingDelta(actual_a, expected_a),
           get_rating(r, team_b) + RatingDelta(actual_b, expected_b) >>

\* update_ratings that puts every other team back to the initial rating
update_ratings_resets_others(r, team_a, team_b, score_a, score_b, home_advantage) ==
    LET new == new_ratings(r, team_a, team_b, score_a, score_b, home_advantage)
    IN  [t \in DOMAIN r \cup {team_a, team_b} |->
            IF t = team_b THEN new[2]
            ELSE IF t = team_a THEN new[1]
            ELSE InitialRating * RatingScale]

\* self.ratings after update_ratings
update_ratings(r, team_a, team_b, score_a, score_b, home_advantage) ==
    LET new == new_ratings(r, team_a, team_b, score_a, score_b, home_advantage)
    IN  [t \in DOMAIN r \cup {team_a, team_b} |->
            IF t = team_b THEN new[2]
            ELSE IF t = team_a THEN new[1]
            ELSE r[t]]

\* dict(self.ratings)
get_all_ratings(r) == r

-----------------------------------------------------------------------------
(* UCLDataExtractor: the frame and the outcome rules.  A pandas boolean-mask
   selection keeps the frame's row order: SelectSeq. *)

RECURSIVE Perms(_)
Perms(S) ==
    IF S = {} THEN {<<>>}
    ELSE UNION {{<<x>> \o p : p \in Perms(S \ {x})} : x \in S}

\* every arrangement of the rows idx of table d that ascends by date; rows of
\* equal date come in an order SQL leaves unspecified
RECURSIVE order_by_date(_, _)
order_by_date(d, idx) ==
    IF idx = {} THEN {<<>>}
    ELSE LET first == CHOOSE k \in idx : \A j \in idx : d[k].date <= d[j].date
             grp   == {k \in idx : d[k].date = d[first].date}
         IN  {[j \in 1..Len(p) |-> d[p[j]]] \o rest :
                 p \in Perms(grp), rest \in order_by_date(d, idx \ grp)}

\* SELECT ... FROM matches without an ORDER BY clause
fetch_matches_unordered(d) == {d}

\* SELECT ... FROM matches ORDER BY date DESC
fetch_matches_desc(d) ==
    {[j \in 1..Len(f) |-> f[Len(f) + 1 - j]] : f \in order_by_date(d, DOMAIN d)}

\* SELECT ... FROM matches ORDER BY date: the frames the query may return
fetch_matches(d) == order_by_date(d, DOMAIN d)

\* the scores by comparing the home and away probabilities only
elo_scores_two_way(match) ==
    IF match.homeWinProb > match.awayWinProb THEN <<2, 1>>
    ELSE IF match.awayWinProb > match.homeWinProb THEN <<1, 2>>
    ELSE <<1, 1>>

\* calculate_elo_ratings: the scores passed to update_ratings for a match
elo_scores(match) ==
    LET home_prob == match.homeWinProb
        draw_prob == match.drawProb
        away_prob == match.awayWinProb
    IN  IF home_prob > away_prob /\ home_prob > draw_prob THEN <<2, 1>>
        ELSE IF away_prob > home_prob /\ away_prob > draw_prob THEN <<1, 2>>
        ELSE <<1, 1>>

\* the label with ties for the maximum going to the first maximal field
outcome_label_first_max(match) ==
    LET home_prob == match.homeWinProb
        draw_prob == match.drawProb
        away_prob == match.awayWinProb
    IN  IF home_prob >= away_prob /\ home_prob >= draw_prob THEN 0
        ELSE IF draw_prob >= away_prob THEN 1
        ELSE 2

\* prepare_training_data: the outcome label of a match
outcome_label(match) ==
    LET home_prob == match.homeWinProb
        draw_prob == match.drawProb
        away_prob == match.awayWinProb
    IN  IF home_prob > away_prob /\ home_prob > draw_prob THEN 0
        ELSE IF away_prob > home_prob /\ away_prob > draw_prob THEN 2
        ELSE 1

\* calculate_team_form: the form points of one windowed match
form_points(team, match) ==
    IF match.homeTeam = team
    THEN IF match.homeWinProb > match.awayWinProb THEN 3
         ELSE IF match.homeWinProb < match.awayWinProb THEN 0
         ELSE 1
    ELSE IF match.awayWinProb > match.homeWinProb THEN 3
         ELSE IF match.awayWinProb < match.homeWinProb THEN 0
         ELSE 1

\* (matches_df['date'] <= before_date)
form_window_inclusive(team, frame, before_date, n_matches) ==
    LET Qualifies(m) == /\ (m.homeTeam = team \/ m.awayTeam = team)
                        /\ m.date <= before_date
                        /\ m.status = "FINISHED"
    IN  TailN(SelectSeq(frame, Qualifies), n_matches)

\* .head(n_matches)
form_window_oldest(team, frame, before_date, n_matches) ==
    LET Qualifies(m) == /\ (m.homeTeam = team \/ m.awayTeam = team)
                        /\ m.date < before_date
                        /\ m.status = "FINISHED"
        q == SelectSeq(frame, Qualifies)
    IN  IF Len(q) <= n_matches THEN q ELSE SubSeq(q, 1, n_matches)

\* calculate_team_form: the rows the metrics are computed from
form_window(team, frame, before_date, n_matches) ==
    LET Qualifies(m) == /\ (m.homeTeam = team \/ m.awayTeam = team)
                        /\ m.date < before_date
                        /\ m.status = "FINISHED"
    IN  TailN(SelectSeq(frame, Qualifies), n_matches)

\* the metrics when an empty window is given zeros instead of the defaults
calculate_team_form_zero_default(team, frame, before_date, n_matches) ==
    LET team_matches == form_window(team, frame, before_date, n_matches)
        n            == Len(team_matches)
        points       == [k \in 1..n |-> form_points(team, team_matches[k])]
        side_xg      == [k \in 1..n |->
                            IF team_matches[k].homeTeam = team
                            THEN team_matches[k].homeXg
                            ELSE team_matches[k].awayXg]
        possession   == [k \in 1..n |->
                            IF team_matches[k].homeTeam = team THEN 55 ELSE 45]
    IN  IF n = 0
        THEN [form |-> 0, goals |-> 0, xg |-> 0, possession |-> 0]
        ELSE [form       |-> (MeanScale * SumSeq(points)) \div n,
              goals      |-> SumSeq(side_xg) \div XgScale,
              xg         |-> SumSeq(side_xg),
              possession |-> (MeanScale * SumSeq(possession)) \div n]

\* the metrics when every windowed match is read from its home side
calculate_team_form_home_side(team, frame, before_date, n_matches) ==
    LET team_matches == form_window(team, frame, before_date, n_matches)
        n            == Len(team_matches)
        points       == [k \in 1..n |-> form_points(team, team_matches[k])]
        side_xg      == [k \in 1..n |-> team_matches[k].homeXg]
        possession   == [k \in 1..n |-> 55]
    IN  IF n = 0
        THEN [form |-> (3 * MeanScale) \div 2, goals |-> 5,
              xg |-> 5 * XgScale, possession |-> 50 * MeanScale]
        ELSE [form       |-> (MeanScale * SumSeq(points)) \div n,
              goals      |-> SumSeq(side_xg) \div XgScale,
              xg         |-> SumSeq(side_xg),
              possession |-> (MeanScale * SumSeq(possession)) \div n]

calculate_team_form(team, frame, before_date, n_matches) ==
    LET team_matches == form_window(team, frame, before_date, n_matches)
        n            == Len(team_matches)
        points       == [k \in 1..n |-> form_points(team, team_matches[k])]
        side_xg      == [k \in 1..n |->
                            IF team_matches[k].homeTeam = team
                            THEN team_matches[k].homeXg
                            ELSE team_matches[k].awayXg]
        possession   == [k \in 1..n |->
                            IF team_matches[k].homeTeam = team THEN 55 ELSE 45]
    IN  IF n = 0
        THEN [form |-> (3 * MeanScale) \div 2, goals |-> 5,
              xg |-> 5 * XgScale, possession |-> 50 * MeanScale]
        ELSE [form       |-> (MeanScale * SumSeq(points)) \div n,
              goals      |-> SumSeq(side_xg) \div XgScale,
              xg         |-> SumSeq(side_xg),
              possession |-> (MeanScale * SumSeq(possession)) \div n]

\* the rows counted when every earlier finished match of home_team is taken
h2h_rows_any_opponent(home_team, away_team, frame, before_date) ==
    LET Qualifies(m) ==
            /\ (m.homeTeam = home_team \/ m.awayTeam = home_team)
            /\ m.date < before_date
            /\ m.status = "FINISHED"
    IN  SelectSeq(frame, Qualifies)

\* calculate_h2h_stats: the rows counted
h2h_rows(home_team, away_team, frame, before_date) ==
    LET Qualifies(m) ==
            /\ \/ (m.homeTeam = home_team /\ m.awayTeam = away_team)
               \/ (m.homeTeam = away_team /\ m.awayTeam = home_team)
            /\ m.date < before_date
            /\ m.status = "FINISHED"
    IN  SelectSeq(frame, Qualifies)

\* the count a meeting goes to when the side that played at home is credited
h2h_side_by_venue(home_team, match) ==
    IF match.homeWinProb > match.awayWinProb THEN "home_wins"
    ELSE IF match.homeWinProb < match.awayWinProb THEN "away_wins"
    ELSE "draws"

\* the count a meeting goes to when a level meeting goes to none
h2h_side_level_uncounted(home_team, match) ==
    IF match.homeWinProb = match.awayWinProb THEN "none"
    ELSE IF (match.homeTeam = home_team) = (match.homeWinProb > match.awayWinProb)
         THEN "home_wins"
         ELSE "away_wins"

\* calculate_h2h_stats: the count one meeting goes to
h2h_side(home_team, match) ==
    IF match.homeTeam = home_team
    THEN IF match.homeWinProb > match.awayWinProb THEN "home_wins"
         ELSE IF match.homeWinProb < match.awayWinProb THEN "away_wins"
         ELSE "draws"
    ELSE IF match.awayWinProb > match.homeWinProb THEN "home_wins"
         ELSE IF match.awayWinProb < match.homeWinProb THEN "away_wins"
         ELSE "draws"

calculate_h2h_stats(home_team, away_team, frame, before_date) ==
    LET h2h == h2h_rows(home_team, away_team, frame, before_date)
        Count(side) == Cardinality({k \in 1..Len(h2h) : h2h_side(home_team, h2h[k]) = side})
    IN  [home_wins |-> Count("home_wins"),
         draws     |-> Count("draws"),
         away_wins |-> Count("away_wins")]

\* elo_ratings.get(team, 1500)
elo_lookup(elo, team) ==
    IF team \in DOMAIN elo THEN elo[team] ELSE DefaultElo * RatingScale

\* the feature vector with the two form slots exchanged
feature_row_away_first(match, frame, elo) ==
    LET home_team == match.homeTeam
        away_team == match.awayTeam
        home_elo  == elo_lookup(elo, home_team)
        away_elo  == elo_lookup(elo, away_team)
        home_form == calculate_team_form(home_team, frame, match.date, FormWindow)
        away_form == calculate_team_form(away_team, frame, match.date, FormWindow)
        h2h       == calculate_h2h_stats(home_team, away_team, frame, match.date)
    IN  << home_elo, away_elo, home_elo - away_elo,
           away_form.form, home_form.form,
           home_form.goals, away_form.goals,
           home_form.xg, away_form.xg,
           h2h.home_wins, h2h.draws, h2h.away_wins,
           home_form.possession, away_form.possession,
           1, 8, 4, 4 >>

\* prepare_training_data: the feature vector of one finished match
feature_row(match, frame, elo) ==
    LET home_team == match.homeTeam
        away_team == match.awayTeam
        home_elo  == elo_lookup(elo, home_team)
        away_elo  == elo_lookup(elo, away_team)
        home_form == calculate_team_form(home_team, frame, match.date, FormWindow)
        away_form == calculate_team_form(away_team, frame, match.date, FormWindow)
        h2h       == calculate_h2h_stats(home_team, away_team, frame, match.date)
    IN  << home_elo, away_elo, home_elo - away_elo,
           home_form.form, away_form.form,
           home_form.goals, away_form.goals,
           home_form.xg, away_form.xg,
           h2h.home_wins, h2h.draws, h2h.away_wins,
           home_form.possession, away_form.possession,
           1, 8, 4, 4 >>

\* matches_df (no status filter)
any_status(m) == m.status \in {"FINISHED", "SCHEDULED"}

\* matches_df['status'] == 'FINISHED'
IsFinished(m) == m.status = "FINISHED"

\* if len(finished_matches) <= 10
insufficient_data_le(finished) == Len(finished) <= MinFinished

\* if len(finished_matches) < 10
insufficient_data(finished) == Len(finished) < MinFinished

\* the loop of calculate_elo_ratings over a frame, from the ratings r
RECURSIVE elo_pass(_, _)
elo_pass(r, frame) ==
    IF frame = <<>> THEN r
    ELSE LET match == Head(frame)
             score == elo_scores(match)
         IN  IF match.status # "FINISHED"
             THEN elo_pass(r, Tail(frame))
             ELSE elo_pass(update_ratings(r, match.homeTeam, match.awayTeam,
                                          score[1], score[2],
                                          HomeAdvantage * RatingScale),
                           Tail(frame))

\* calculate_elo_ratings: a new ELOSystem, the loop, get_all_ratings
calculate_elo_ratings(frame) == get_all_ratings(elo_pass(<<>>, frame))

\* prepare_training_data on the frame fetch_matches returned
prepare_from(frame) ==
    LET finished == SelectSeq(frame, IsFinished)
        elo      == calculate_elo_ratings(finished)
        n        == Len(finished)
    IN  IF insufficient_data(finished)
        THEN <<None, None, None, None>>
        ELSE << [k \in 1..n |-> feature_row(finished[k], finished, elo)],
                [k \in 1..n |-> outcome_label(finished[k])],
                [k \in 1..n |-> finished[k].homeXg],
                [k \in 1..n |-> finished[k].awayXg] >>

-----------------------------------------------------------------------------
(* Feature schemas: the column lists of the extractor, the trainers and the   *)
(* predictors                                                                 *)

\* data_extraction.main: feature_names, the columns of the DataFrame built from X
extractor_feature_names ==
    << "home_elo", "away_elo", "elo_diff",
       "home_form_last5", "away_form_last5",
       "home_goals_last5", "away_goals_last5",
       "home_xg_last5", "away_xg_last5",
       "h2h_home_wins", "h2h_draws", "h2h_away_wins",
       "home_possession_avg", "away_possession_avg",
       "venue_advantage", "stage_importance",
       "home_rest_days", "away_rest_days" >>

\* data_extraction.main: df['outcome'], df['home_xg'], df['away_xg']
extractor_target_names == << "outcome", "home_xg", "away_xg" >>

\* MatchOutcomePredictor.__init__: self.feature_names
outcome_feature_names ==
    << "home_elo", "away_elo", "elo_diff",
       "home_form_last5", "away_form_last5",
       "home_goals_last5", "away_goals_last5",
       "home_xg_last5", "away_xg_last5",
       "h2h_home_wins", "h2h_draws", "h2h_away_wins",
       "home_possession_avg", "away_possession_avg",
       "venue_advantage", "stage_importance",
       "home_rest_days", "away_rest_days",
       "elo_gap_magnitude", "underdog_factor",
       "quality_tier_home", "quality_tier_away",
       "strength_adjusted_venue" >>

\* ExpectedGoalsPredictor.__init__: self.feature_names
xg_feature_names ==
    << "home_elo", "away_elo", "elo_diff",
       "home_form_last5", "away_form_last5",
       "home_goals_last5", "away_goals_last5",
       "home_xg_last5", "away_xg_last5",
       "h2h_home_wins", "h2h_draws", "h2h_away_wins" >>

\* train_on_real_data: feature_columns
feature_columns ==
    << "home_elo", "away_elo", "elo_diff",
       "home_form_last5", "away_form_last5",
       "home_goals_last5", "away_goals_last5",
       "home_xg_last5", "away_xg_last5",
       "h2h_home_wins", "h2h_draws", "h2h_away_wins",
       "home_possession_avg", "away_possession_avg",
       "venue_advantage", "stage_importance",
       "home_rest_days", "away_rest_days",
       "elo_gap_magnitude", "underdog_factor",
       "quality_tier_home", "quality_tier_away",
       "strength_adjusted_venue" >>

\* generate_synthetic_training_data: the columns X[:, 0] .. X[:, 16] of the
\* matrix np.random.randn(n_samples, 17), named as the code names them
synthetic_columns ==
    << "home_elo", "away_elo", "elo_diff",
       "home_form_last5", "away_form_last5",
       "home_goals_last5", "away_goals_last5",
       "home_xg_last5", "away_xg_last5",
       "h2h_home_wins", "h2h_draws", "h2h_away_wins",
       "home_possession_avg", "away_possession_avg",
       "venue_advantage", "stage_importance",
       "home_rest_days" >>

\* X[:, 1:n+1] on the columns of a matrix
columns_from_second(columns, n) ==
    SubSeq(columns, 2, IF n + 1 < Len(columns) THEN n + 1 ELSE Len(columns))

\* X[:, :n] on the columns of a matrix
first_columns(columns, n) == SubSeq(columns, 1, IF n < Len(columns) THEN n ELSE Len(columns))

\* the set of names of a column list
Names(columns) == {columns[k] : k \in 1..Len(columns)}

\* the training data file before anything wrote it
NoFile == [exists |-> FALSE, writer |-> "none", columns |-> <<>>, rows |-> <<>>]

\* no mapping handed out yet
NoSnapshot == [taken |-> FALSE, shared |-> FALSE, items |-> <<>>, calls |-> <<>>]

\* no training script run: the columns each model was fitted on are none
NoModels ==
    [outcome |-> <<>>, xg_home |-> <<>>, xg_away |-> <<>>,
     entry |-> "none", result |-> "pending", prediction |-> "none"]

-----------------------------------------------------------------------------
(* The matches table *)

\* probability fields (percent) and expected goals (tenths) a row may carry:
\* one profile for each way the three probabilities can be ordered
ProfileList ==
    << [hp |-> 50, dp |-> 30, ap |-> 20, hxg |-> 18, axg |-> 9],
       [hp |-> 50, dp |-> 20, ap |-> 30, hxg |-> 21, axg |-> 12],
       [hp |-> 35, dp |-> 40, ap |-> 25, hxg |-> 13, axg |-> 11],
       [hp |-> 25, dp |-> 40, ap |-> 35, hxg |-> 10, axg |-> 14],
       [hp |-> 30, dp |-> 20, ap |-> 50, hxg |-> 11, axg |-> 19],
       [hp |-> 20, dp |-> 30, ap |-> 50, hxg |-> 8,  axg |-> 21],
       [hp |-> 40, dp |-> 40, ap |-> 20, hxg |-> 15, axg |-> 10],
       [hp |-> 40, dp |-> 20, ap |-> 40, hxg |-> 16, axg |-> 16],
       [hp |-> 20, dp |-> 40, ap |-> 40, hxg |-> 9,  axg |-> 15],
       [hp |-> 40, dp |-> 30, ap |-> 30, hxg |-> 17, axg |-> 13],
       [hp |-> 33, dp |-> 34, ap |-> 33, hxg |-> 12, axg |-> 12],
       [hp |-> 30, dp |-> 30, ap |-> 40, hxg |-> 7,  axg |-> 14],
       [hp |-> 33, dp |-> 33, ap |-> 33, hxg |-> 10, axg |-> 10] >>

\* how profiles are dealt to the matches of a table: the same one to every
\* match, or the list in rotation from some offset
Patterns == [kind : {"const", "cycle"}, k : 1..Len(ProfileList)]
ProfileOf(r, pat) ==
    IF pat.kind = "const" THEN ProfileList[pat.k]
    ELSE ProfileList[((r - 1 + pat.k) % Len(ProfileList)) + 1]

\* double round robin among the first m teams: the fixture of the r-th match
FixtureHome(r, m) == ((r - 1) % m) + 1
FixtureAway(r, m) ==
    LET step == 1 + (((r - 1) \div m) % (m - 1))
    IN  ((FixtureHome(r, m) - 1 + step) % m) + 1

\* the r-th match by date of a table: fixture of m teams, profiles dealt by
\* pat, match number sched (if any) not yet played, match number tie + 1 (if
\* any) played on the date of match number tie
MkRow(r, m, pat, sched, tie) ==
    LET p == ProfileOf(r, pat)
    IN  [id          |-> r,
         homeTeam    |-> FixtureHome(r, m),
         awayTeam    |-> FixtureAway(r, m),
         date        |-> IF tie > 0 /\ r > tie THEN r - 1 ELSE r,
         status      |-> IF r = sched THEN "SCHEDULED" ELSE "FINISHED",
         homeWinProb |-> p.hp,
         drawProb    |-> p.dp,
         awayWinProb |-> p.ap,
         homeXg      |-> p.hxg,
         awayXg      |-> p.axg]

\* physical row orders of a table of n rows
RowOrders == {"asc", "desc", "odd_even"}
Arrange(h, order) ==
    LET n == Len(h)
        odds == (n + 1) \div 2
    IN  [k \in 1..n |->
            IF order = "asc" THEN h[k]
            ELSE IF order = "desc" THEN h[n + 1 - k]
            ELSE IF k <= odds THEN h[2 * k - 1] ELSE h[2 * (k - odds)]]

Tables ==
    { Arrange([r \in 1..n |-> MkRow(r, m, pat, sched, tie)], order) :
        n \in (MinFinished - 1)..(MinFinished + MaxExtra),
        m \in 2..NumTeams,
        pat \in Patterns,
        sched \in {0, 3, MinFinished}, tie \in {0, 2},
        order \in RowOrders }

-----------------------------------------------------------------------------
(* prepare_training_data and main, as a process *)

Init ==
    /\ db \in Tables
    /\ pc = "start"
    /\ matches_df = <<>>
    /\ finished_matches = <<>>
    /\ ratings = <<>>
    /\ elo_calls = <<>>
    /\ elo_ratings = <<>>
    /\ i = 0
    /\ X = <<>>
    /\ y_outcome = <<>>
    /\ y_xg_home = <<>>
    /\ y_xg_away = <<>>
    /\ ret = "pending"
    /\ success = "pending"
    /\ csv = NoFile
    /\ models = NoModels
    /\ previous = <<>>
    /\ runs = <<>>
    /\ snapshot = NoSnapshot
    /\ values = <<>>

\* a pass that kept the engine of the call before it
ELOSystem_reused(left_over) == left_over

\* elo = ELOSystem(k_factor=20, initial_rating=1500): the engine of one pass is
\* a new object whose ratings hold no team, whatever an earlier pass left over
ELOSystem(left_over) == <<>>

\* fetch, filter, threshold test; on success the ELOSystem is constructed
Fetch ==
    /\ pc = "start"
    /\ \E frame \in fetch_matches(db) :
        /\ matches_df' = frame
        /\ finished_matches' = SelectSeq(frame, IsFinished)
    /\ IF insufficient_data(finished_matches')
       THEN /\ ret' = <<None, None, None, None>>
            /\ pc' = "returned"
            /\ UNCHANGED <<ratings, i>>
       ELSE /\ ratings' = ELOSystem(ratings)
            /\ i' = 1
            /\ pc' = "elo"
            /\ UNCHANGED ret
    /\ UNCHANGED <<db, elo_calls, elo_ratings, X, y_outcome, y_xg_home, y_xg_away,
                   success, csv, models,
                   previous, runs, snapshot, values>>

\* one iteration of the loop of calculate_elo_ratings
EloStep ==
    /\ pc = "elo"
    /\ i <= Len(finished_matches)
    /\ LET match == finished_matches[i]
           score == elo_scores(match)
       IN  IF match.status # "FINISHED"
           THEN UNCHANGED <<ratings, elo_calls>>
           ELSE /\ ratings' = update_ratings(ratings, match.homeTeam, match.awayTeam,
                                             score[1], score[2],
                                             HomeAdvantage * RatingScale)
                /\ elo_calls' = Append(elo_calls,
                                       [id |-> match.id, date |-> match.date,
                                        home_score |-> score[1],
                                        away_score |-> score[2]])
    /\ i' = i + 1
    /\ UNCHANGED <<db, pc, matches_df, finished_matches, elo_ratings,
                   X, y_outcome, y_xg_home, y_xg_away, ret, success, csv, models,
                   previous, runs, snapshot, values>>

\* calculate_elo_ratings returns; the feature lists are created
EloReturn ==
    /\ pc = "elo"
    /\ i > Len(finished_matches)
    /\ elo_ratings' = get_all_ratings(ratings)
    /\ X' = <<>>
    /\ y_outcome' = <<>>
    /\ y_xg_home' = <<>>
    /\ y_xg_away' = <<>>
    /\ i' = 1
    /\ pc' = "features"
    /\ UNCHANGED <<db, matches_df, finished_matches, ratings, elo_calls, ret, success, csv, models,
                   previous, runs, snapshot, values>>

\* the two goal targets taken from the other side's field
xg_targets_swapped(match) == <<match.awayXg, match.homeXg>>

\* what one match appends to y_xg_home and to y_xg_away
xg_targets(match) == <<match.homeXg, match.awayXg>>

\* one iteration of the feature loop
FeatureStep ==
    /\ pc = "features"
    /\ i <= Len(finished_matches)
    /\ LET match == finished_matches[i]
       IN  /\ X' = Append(X, feature_row(match, finished_matches, elo_ratings))
           /\ y_outcome' = Append(y_outcome, outcome_label(match))
           /\ y_xg_home' = Append(y_xg_home, xg_targets(match)[1])
           /\ y_xg_away' = Append(y_xg_away, xg_targets(match)[2])
    /\ i' = i + 1
    /\ UNCHANGED <<db, pc, matches_df, finished_matches, ratings, elo_calls,
                   elo_ratings, ret, success, csv, models,
                   previous, runs, snapshot, values>>

\* the arrays are returned
Return ==
    /\ pc = "features"
    /\ i > Len(finished_matches)
    /\ ret' = <<X, y_outcome, y_xg_home, y_xg_away>>
    /\ pc' = "returned"
    /\ UNCHANGED <<db, matches_df, finished_matches, ratings, elo_calls, elo_ratings,
                   i, X, y_outcome, y_xg_home, y_xg_away, success, csv, models,
                   previous, runs, snapshot, values>>

\* the file df.to_csv writes: the feature columns of X, then the targets
to_csv(features, outcome, xg_home, xg_away) ==
    [exists  |-> TRUE,
     writer  |-> "data_extraction",
     columns |-> extractor_feature_names \o extractor_target_names,
     rows    |-> [k \in 1..Len(features) |->
                     features[k] \o <<outcome[k], xg_home[k], xg_away[k]>>]]

\* main: False on the insufficient-data result, True after saving the data
Main ==
    /\ pc = "returned"
    /\ success' = (ret[1] # None)
    /\ csv' = IF ret[1] # None THEN to_csv(ret[1], ret[2], ret[3], ret[4]) ELSE csv
    /\ pc' = "exit"
    /\ UNCHANGED <<db, matches_df, finished_matches, ratings, elo_calls, elo_ratings,
                   i, X, y_outcome, y_xg_home, y_xg_away, ret, models,
                   previous, runs, snapshot, values>>

Next == Fetch \/ EloStep \/ EloReturn \/ FeatureStep \/ Return \/ Main

Spec == Init /\ [][Next]_vars

\* prepare_training_data is called again on the same extractor and the same
\* table: the frame and the arrays of the finished call are kept by the caller,
\* the locals of the new call are unbound, and the engine of the finished pass
\* is what that pass left of it
CallAgain ==
    /\ pc = "returned"
    /\ Len(previous) < MaxBuilds - 1
    /\ previous' = Append(previous, [frame |-> matches_df, result |-> ret])
    /\ pc' = "start"
    /\ matches_df' = <<>>
    /\ finished_matches' = <<>>
    /\ elo_calls' = <<>>
    /\ elo_ratings' = <<>>
    /\ i' = 0
    /\ X' = <<>>
    /\ y_outcome' = <<>>
    /\ y_xg_home' = <<>>
    /\ y_xg_away' = <<>>
    /\ ret' = "pending"
    /\ UNCHANGED <<db, ratings, success, csv, models, runs, snapshot, values>>

NextRebuild == Next \/ CallAgain

SpecRebuild == Init /\ [][NextRebuild]_vars

-----------------------------------------------------------------------------
(* Training and serving: train_real_data.py, train.py, serve.py, run after    *)
(* the extractor                                                              *)

\* prepare_features: the vector built from a request, one slot per name,
\* match_data.get(feature, 0)
prepare_features(names, match_data) ==
    [k \in 1..Len(names) |->
        IF names[k] \in DOMAIN match_data THEN match_data[names[k]] ELSE 0]

\* scaler.transform on a vector: fails unless it has as many columns as the
\* matrix the scaler was fitted on
transform(fitted_columns, vector) ==
    IF Len(vector) = Len(fitted_columns) THEN "ok" ELSE "ValueError"

\* the requests predicted: train.py's test_match, which gives the 18 baseline
\* features, and a serve.py MatchFeatures body, which gives all 23
MatchRequests ==
    { [name \in Names(extractor_feature_names) |-> 1],
      [name \in Names(outcome_feature_names) |-> 2] }

\* the five features the extended scheme appends to a baseline row
extended_features(row) ==
    LET elo_diff == row[3]
        gap      == IF elo_diff >= 0 THEN elo_diff ELSE -elo_diff
        tier(r)  == IF r > 1850 * RatingScale THEN 1
                    ELSE IF r >= 1750 * RatingScale THEN 2 ELSE 3
    IN  << gap,
           IF row[2] > row[1] THEN 1 ELSE 0,
           tier(row[1]), tier(row[2]),
           row[15] * (200 * RatingScale - gap) >>

\* the file of the export-training-data script: the extended scheme for every
\* finished match, then the targets
export_csv(finished) ==
    LET elo == calculate_elo_ratings(finished)
    IN  [exists  |-> TRUE,
         writer  |-> "export-training-data",
         columns |-> feature_columns \o extractor_target_names,
         rows    |-> [k \in 1..Len(finished) |->
                         LET row == feature_row(finished[k], finished, elo)
                         IN  row \o extended_features(row)
                                 \o <<outcome_label(finished[k]),
                                      finished[k].homeXg, finished[k].awayXg>>]]

\* npm run export-training-data
ExportTrainingData ==
    /\ pc = "exit"
    /\ csv' = export_csv(finished_matches)
    /\ pc' = "exported"
    /\ UNCHANGED <<db, matches_df, finished_matches, ratings, elo_calls, elo_ratings,
                   i, X, y_outcome, y_xg_home, y_xg_away, ret, success, models,
                   previous, runs, snapshot, values>>

\* train_real_data.py: train_on_real_data on data/real_training_data.csv
TrainOnRealData ==
    /\ pc \in {"exit", "exported"}
    /\ models' =
          IF ~csv.exists \/ Len(csv.rows) < MinSamples
          THEN [models EXCEPT !.entry = "train_real_data", !.result = "False"]
          ELSE IF ~(Names(feature_columns) \subseteq Names(csv.columns))
          THEN [models EXCEPT !.entry = "train_real_data", !.result = "KeyError"]
          ELSE [models EXCEPT !.entry = "train_real_data", !.result = "True",
                              !.outcome = feature_columns,
                              !.xg_home = first_columns(feature_columns, XgColumnsReal),
                              !.xg_away = first_columns(feature_columns, XgColumnsReal)]
    /\ pc' = "trained"
    /\ UNCHANGED <<db, matches_df, finished_matches, ratings, elo_calls, elo_ratings,
                   i, X, y_outcome, y_xg_home, y_xg_away, ret, success, csv,
                   previous, runs, snapshot, values>>

\* train.py main --model which: the outcome model is fitted on the synthetic
\* matrix, saved and tried on test_match; then the xG models are fitted on its
\* first columns
TrainSynthetic(which) ==
    /\ pc = "exit"
    /\ LET test_match == [name \in Names(extractor_feature_names) |-> 1]
           tried      == transform(synthetic_columns,
                                   prepare_features(outcome_feature_names, test_match))
           match_ok   == which = "xg" \/ tried = "ok"
       IN  models' =
              [models EXCEPT
                 !.entry   = "train",
                 !.outcome = IF which \in {"match", "all"}
                             THEN synthetic_columns ELSE @,
                 !.xg_home = IF which \in {"xg", "all"} /\ match_ok
                             THEN first_columns(synthetic_columns, XgColumnsSynthetic)
                             ELSE @,
                 !.xg_away = IF which \in {"xg", "all"} /\ match_ok
                             THEN first_columns(synthetic_columns, XgColumnsSynthetic)
                             ELSE @,
                 !.result  = IF match_ok THEN "done" ELSE tried]
    /\ pc' = "trained"
    /\ UNCHANGED <<db, matches_df, finished_matches, ratings, elo_calls, elo_ratings,
                   i, X, y_outcome, y_xg_home, y_xg_away, ret, success, csv,
                   previous, runs, snapshot, values>>

\* serve.py predict_match: the outcome model, then the two xG models, on the
\* vectors prepare_features builds
PredictMatch(match_data) ==
    /\ pc = "trained"
    /\ models.outcome # <<>>
    /\ LET outcome == transform(models.outcome,
                                prepare_features(outcome_feature_names, match_data))
           xg_home == transform(models.xg_home,
                                prepare_features(xg_feature_names, match_data))
           xg_away == transform(models.xg_away,
                                prepare_features(xg_feature_names, match_data))
       IN  models' = [models EXCEPT !.prediction =
                         IF outcome = "ok" /\ xg_home = "ok" /\ xg_away = "ok"
                         THEN "ok" ELSE "error"]
    /\ pc' = "served"
    /\ UNCHANGED <<db, matches_df, finished_matches, ratings, elo_calls, elo_ratings,
                   i, X, y_outcome, y_xg_home, y_xg_away, ret, success, csv,
                   previous, runs, snapshot, values>>

NextTrain ==
    \/ Next
    \/ ExportTrainingData
    \/ TrainOnRealData
    \/ \E which \in {"match", "xg", "all"} : TrainSynthetic(which)
    \/ \E match_data \in MatchRequests : PredictMatch(match_data)

SpecTrain == Init /\ [][NextTrain]_vars

-----------------------------------------------------------------------------
(* A free-standing ELOSystem driven by arbitrary calls *)

ScorePairs == {<<2, 1>>, <<1, 1>>, <<1, 2>>, <<0, 3>>}
Advantages == {0, HomeAdvantage * RatingScale}

InitElo ==
    /\ db = <<>>
    /\ pc = "elo_system"
    /\ matches_df = <<>>
    /\ finished_matches = <<>>
    /\ ratings = <<>>
    /\ elo_calls = <<>>
    /\ elo_ratings = <<>>
    /\ i = 0
    /\ X = <<>>
    /\ y_outcome = <<>>
    /\ y_xg_home = <<>>
    /\ y_xg_away = <<>>
    /\ ret = "pending"
    /\ success = "pending"
    /\ csv = NoFile
    /\ models = NoModels
    /\ previous = <<>>
    /\ runs = <<>>
    /\ snapshot = NoSnapshot
    /\ values = <<>>

\* elo.update_ratings(team_a, team_b, score_a, score_b, home_advantage)
UpdateRatings(team_a, team_b, score_a, score_b, home_advantage) ==
    /\ pc = "elo_system"
    /\ i < MaxCalls
    /\ i' = i + 1
    /\ ratings' = update_ratings(ratings, team_a, team_b, score_a, score_b,
                                 home_advantage)
    /\ ret' = new_ratings(ratings, team_a, team_b, score_a, score_b, home_advantage)
    /\ elo_calls' = Append(elo_calls,
                           [team_a |-> team_a, team_b |-> team_b,
                            score_a |-> score_a, score_b |-> score_b,
                            home_advantage |-> home_advantage,
                            old_a |-> get_rating(ratings, team_a),
                            old_b |-> get_rating(ratings, team_b),
                            stored_a |-> ratings'[team_a],
                            stored_b |-> ratings'[team_b]])
    /\ UNCHANGED <<db, pc, matches_df, finished_matches, elo_ratings,
                   X, y_outcome, y_xg_home, y_xg_away, success, csv, models,
                   previous, runs, snapshot, values>>

\* elo.get_rating(team): the defaultdict read materialises the team
GetRating(team) ==
    /\ pc = "elo_system"
    /\ i < MaxCalls
    /\ i' = i + 1
    /\ ret' = get_rating(ratings, team)
    /\ ratings' = [t \in DOMAIN ratings \cup {team} |-> get_rating(ratings, t)]
    /\ UNCHANGED <<db, pc, matches_df, finished_matches, elo_calls, elo_ratings,
                   X, y_outcome, y_xg_home, y_xg_away, success, csv, models,
                   previous, runs, snapshot, values>>

NextElo ==
    \/ \E team_a, team_b \in Teams, score \in ScorePairs, adv \in Advantages :
          team_a # team_b /\ UpdateRatings(team_a, team_b, score[1], score[2], adv)
    \/ \E team \in Teams : GetRating(team)

SpecElo == InitElo /\ [][NextElo]_vars

\* get_all_ratings handing out self.ratings itself
same_mapping(mapping) ==
    [taken |-> TRUE, shared |-> TRUE, items |-> mapping, calls |-> <<>>]

\* dict(self.ratings): a new plain dict with the items of the mapping; it is
\* not the engine's object and has no default
dict_of(mapping) ==
    [taken |-> TRUE, shared |-> FALSE, items |-> mapping, calls |-> <<>>]

\* the items the caller sees in the mapping it holds
items_of(held, r) == IF held.shared THEN r ELSE held.items

\* the values a caller writes into a mapping it holds
CallerValues == {(InitialRating + 1) * RatingScale}

\* elo.get_all_ratings(), called once; the caller keeps the result
GetAllRatings ==
    /\ pc = "elo_system"
    /\ ~snapshot.taken
    /\ i < MaxCalls
    /\ i' = i + 1
    /\ snapshot' = dict_of(get_all_ratings(ratings))
    /\ UNCHANGED <<db, pc, matches_df, finished_matches, ratings, elo_calls,
                   elo_ratings, X, y_outcome, y_xg_home, y_xg_away, ret, success,
                   csv, models, previous, runs, values>>

\* elo_ratings.get(team, 1500) on the mapping the caller holds
SnapshotGet(team) ==
    /\ pc = "elo_system"
    /\ snapshot.taken
    /\ i < MaxCalls
    /\ i' = i + 1
    /\ snapshot' = [snapshot EXCEPT
                       !.calls = Append(@, [op |-> "get", team |-> team,
                                            value |-> elo_lookup(items_of(snapshot, ratings), team)])]
    /\ UNCHANGED <<db, pc, matches_df, finished_matches, ratings, elo_calls,
                   elo_ratings, X, y_outcome, y_xg_home, y_xg_away, ret, success,
                   csv, models, previous, runs, values>>

\* the caller assigns mapping[team] = value on the mapping it holds
SnapshotSet(team, value) ==
    /\ pc = "elo_system"
    /\ snapshot.taken
    /\ i < MaxCalls
    /\ i' = i + 1
    /\ LET held    == items_of(snapshot, ratings)
           written == [t \in DOMAIN held \cup {team} |->
                          IF t = team THEN value ELSE held[t]]
           call    == [op |-> "set", team |-> team, value |-> value]
       IN  IF snapshot.shared
           THEN /\ ratings' = written
                /\ snapshot' = [snapshot EXCEPT !.calls = Append(@, call)]
           ELSE /\ snapshot' = [snapshot EXCEPT !.items = written,
                                                !.calls = Append(@, call)]
                /\ UNCHANGED ratings
    /\ UNCHANGED <<db, pc, matches_df, finished_matches, elo_calls,
                   elo_ratings, X, y_outcome, y_xg_home, y_xg_away, ret, success,
                   csv, models, previous, runs, values>>

\* the scores calculate_elo_ratings passes: 2-1, 1-1 and 1-2
BuilderScores == {<<2, 1>>, <<1, 1>>, <<1, 2>>}

NextEngine ==
    \/ \E team_a, team_b \in Teams, score \in BuilderScores, adv \in Advantages :
          team_a # team_b /\ UpdateRatings(team_a, team_b, score[1], score[2], adv)
    \/ \E team \in Teams : GetRating(team)
    \/ GetAllRatings
    \/ \E team \in Teams : SnapshotGet(team)
    \/ \E team \in Teams, value \in CallerValues : SnapshotSet(team, value)

SpecEngine == InitElo /\ [][NextEngine]_vars

-----------------------------------------------------------------------------
(* A free-standing UCLDataExtractor queried for form and head-to-head *)

\* the histories queried: the longest tables, whatever their stored order
QueryTables ==
    { [r \in 1..(MinFinished + MaxExtra) |-> MkRow(r, m, pat, sched, tie)] :
        m \in 2..NumTeams,
        pat \in Patterns,
        sched \in {0, 3, MinFinished}, tie \in {0, 2} }

\* n_matches: the default and a shorter window
Windows == {2, FormWindow}

\* reference dates: every date of the history and the day after the last
RefDates(frame) == 1..(Len(frame) + 1)

InitAgg ==
    /\ db \in QueryTables
    /\ pc = "extractor"
    /\ matches_df = <<>>
    /\ finished_matches = <<>>
    /\ ratings = <<>>
    /\ elo_calls = <<>>
    /\ elo_ratings = <<>>
    /\ i = 0
    /\ X = <<>>
    /\ y_outcome = <<>>
    /\ y_xg_home = <<>>
    /\ y_xg_away = <<>>
    /\ ret = "pending"
    /\ success = "pending"
    /\ csv = NoFile
    /\ models = NoModels
    /\ previous = <<>>
    /\ runs = <<>>
    /\ snapshot = NoSnapshot
    /\ values = <<>>

\* matches_df = extractor.fetch_matches()
FetchMatches ==
    /\ pc = "extractor"
    /\ matches_df' \in fetch_matches(db)
    /\ pc' = "fetched"
    /\ UNCHANGED <<db, finished_matches, ratings, elo_calls, elo_ratings, i,
                   X, y_outcome, y_xg_home, y_xg_away, ret, success, csv, models,
                   previous, runs, snapshot, values>>

\* calculate_team_form sorting the caller's frame in place, newest first
CalculateTeamForm_sorting_in_place(team, before_date, n_matches) ==
    /\ pc = "fetched"
    /\ ret' = [op           |-> "calculate_team_form",
               team         |-> team,
               before_date  |-> before_date,
               n_matches    |-> n_matches,
               team_matches |-> form_window(team, matches_df, before_date, n_matches),
               result       |-> calculate_team_form(team, matches_df, before_date,
                                                    n_matches)]
    /\ matches_df' = [k \in 1..Len(matches_df) |->
                         matches_df[Len(matches_df) + 1 - k]]
    /\ pc' = "queried"
    /\ UNCHANGED <<db, finished_matches, ratings, elo_calls, elo_ratings,
                   i, X, y_outcome, y_xg_home, y_xg_away, success, csv, models,
                   previous, runs, snapshot, values>>

\* extractor.calculate_team_form(team, matches_df, before_date, n_matches)
CalculateTeamForm(team, before_date, n_matches) ==
    /\ pc = "fetched"
    /\ ret' = [op           |-> "calculate_team_form",
               team         |-> team,
               before_date  |-> before_date,
               n_matches    |-> n_matches,
               team_matches |-> form_window(team, matches_df, before_date, n_matches),
               result       |-> calculate_team_form(team, matches_df, before_date,
                                                    n_matches)]
    /\ pc' = "queried"
    /\ UNCHANGED <<db, matches_df, finished_matches, ratings, elo_calls, elo_ratings,
                   i, X, y_outcome, y_xg_home, y_xg_away, success, csv, models,
                   previous, runs, snapshot, values>>

\* extractor.calculate_h2h_stats(home_team, away_team, matches_df, before_date)
CalculateH2HStats(home_team, away_team, before_date) ==
    /\ pc = "fetched"
    /\ ret' = [op          |-> "calculate_h2h_stats",
               home_team   |-> home_team,
               away_team   |-> away_team,
               before_date |-> before_date,
               h2h         |-> h2h_rows(home_team, away_team, matches_df, before_date),
               result      |-> calculate_h2h_stats(home_team, away_team, matches_df,
                                                   before_date)]
    /\ pc' = "queried"
    /\ UNCHANGED <<db, matches_df, finished_matches, ratings, elo_calls, elo_ratings,
                   i, X, y_outcome, y_xg_home, y_xg_away, success, csv, models,
                   previous, runs, snapshot, values>>

NextAgg ==
    \/ FetchMatches
    \/ \E team \in Teams, before_date \in RefDates(matches_df), n_matches \in Windows :
          CalculateTeamForm(team, before_date, n_matches)
    \/ \E home_team, away_team \in Teams, before_date \in RefDates(matches_df) :
          CalculateH2HStats(home_team, away_team, before_date)

SpecAgg == InitAgg /\ [][NextAgg]_vars

-----------------------------------------------------------------------------
(* The extractor, run as main or queried *)

InitExtractor == Init \/ InitAgg

NextExtractor == Next \/ NextAgg

SpecExtractor == InitExtractor /\ [][NextExtractor]_vars

-----------------------------------------------------------------------------
(* calculate_elo_ratings called by two training runs side by side.  Each call
   has its locals: the frame it was given, its position in the loop and the
   object its name elo is bound to. *)

\* every call working on the object of the first call
engine_of_first_call(k) == 1

\* the object run k reaches through its local name elo: the one it constructed
engine_of(k) == k

\* the frames handed to the calls: the first matches of a history
RunFrames ==
    { SubSeq(t, 1, MaxRunLen) :
        t \in {q \in QueryTables : q[1].homeWinProb # q[2].homeWinProb} }

NewRun(frame) ==
    [frame |-> frame, at |-> "called", i |-> 0, elo |-> <<>>, result |-> <<>>]

InitRuns ==
    /\ db = <<>>
    /\ pc = "runs"
    /\ matches_df = <<>>
    /\ finished_matches = <<>>
    /\ ratings = <<>>
    /\ elo_calls = <<>>
    /\ elo_ratings = <<>>
    /\ i = 0
    /\ X = <<>>
    /\ y_outcome = <<>>
    /\ y_xg_home = <<>>
    /\ y_xg_away = <<>>
    /\ ret = "pending"
    /\ success = "pending"
    /\ csv = NoFile
    /\ models = NoModels
    /\ previous = <<>>
    /\ runs \in {<<NewRun(f), NewRun(g)>> : f, g \in RunFrames}
    /\ snapshot = NoSnapshot
    /\ values = <<>>

\* run k constructs its ELOSystem
RunConstruct(k) ==
    /\ pc = "runs"
    /\ runs[k].at = "called"
    /\ runs' = [j \in DOMAIN runs |->
                  [at  |-> IF j = k THEN "loop" ELSE runs[j].at,
                   i   |-> IF j = k THEN 1 ELSE runs[j].i,
                   elo |-> IF j = engine_of(k) THEN ELOSystem(runs[j].elo)
                           ELSE runs[j].elo,
                   frame |-> runs[j].frame, result |-> runs[j].result]]
    /\ UNCHANGED <<db, pc, matches_df, finished_matches, ratings, elo_calls,
                   elo_ratings, i, X, y_outcome, y_xg_home, y_xg_away, ret,
                   success, csv, models, previous, snapshot, values>>

\* one iteration of the loop of run k
RunStep(k) ==
    /\ pc = "runs"
    /\ runs[k].at = "loop"
    /\ runs[k].i <= Len(runs[k].frame)
    /\ LET match == runs[k].frame[runs[k].i]
           score == elo_scores(match)
           elo   == runs[engine_of(k)].elo
           after == IF match.status # "FINISHED" THEN elo
                    ELSE update_ratings(elo, match.homeTeam, match.awayTeam,
                                        score[1], score[2],
                                        HomeAdvantage * RatingScale)
       IN  runs' = [j \in DOMAIN runs |->
                      [i   |-> IF j = k THEN runs[j].i + 1 ELSE runs[j].i,
                       elo |-> IF j = engine_of(k) THEN after ELSE runs[j].elo,
                       at |-> runs[j].at, frame |-> runs[j].frame,
                       result |-> runs[j].result]]
    /\ UNCHANGED <<db, pc, matches_df, finished_matches, ratings, elo_calls,
                   elo_ratings, i, X, y_outcome, y_xg_home, y_xg_away, ret,
                   success, csv, models, previous, snapshot, values>>

\* run k returns elo.get_all_ratings()
RunReturn(k) ==
    /\ pc = "runs"
    /\ runs[k].at = "loop"
    /\ runs[k].i > Len(runs[k].frame)
    /\ runs' = [runs EXCEPT
                  ![k].at = "returned",
                  ![k].result = get_all_ratings(runs[engine_of(k)].elo)]
    /\ UNCHANGED <<db, pc, matches_df, finished_matches, ratings, elo_calls,
                   elo_ratings, i, X, y_outcome, y_xg_home, y_xg_away, ret,
                   success, csv, models, previous, snapshot, values>>

NextRuns ==
    \E k \in {1, 2} : RunConstruct(k) \/ RunStep(k) \/ RunReturn(k)

SpecRuns == InitRuns /\ [][NextRuns]_vars

-----------------------------------------------------------------------------
(* RollingStatistics: pure functions of a list and a window.  Means are in
   sixtieths, standard deviations in hundredths (rounded down), sums exact. *)

np_sum(s) == SumSeq(s)

np_mean(s) == (SumSeq(s) * MeanScale) \div Len(s)

\* the population standard deviation (ddof = 0)
np_std(s) ==
    LET n       == Len(s)
        squares == SumSeq([k \in 1..n |-> s[k] * s[k]])
        scaled  == (StdScale * StdScale * (n * squares - SumSeq(s) * SumSeq(s)))
                       \div (n * n)
    IN  CHOOSE r \in 0..scaled : r * r <= scaled /\ scaled < (r + 1) * (r + 1)

\* values[max(0, i - window + 1):i + 1] for the 0-based i = idx - 1
window_slice(vals, window, idx) ==
    SubSeq(vals, IF idx - window + 1 > 1 THEN idx - window + 1 ELSE 1, idx)

rolling_mean(vals, window) ==
    IF Len(vals) < window
    THEN [idx \in 1..Len(vals) |-> np_mean(vals)]
    ELSE [idx \in 1..Len(vals) |-> np_mean(window_slice(vals, window, idx))]

rolling_std(vals, window) ==
    IF Len(vals) < window
    THEN [idx \in 1..Len(vals) |-> np_std(vals)]
    ELSE [idx \in 1..Len(vals) |-> np_std(window_slice(vals, window, idx))]

rolling_sum(vals, window) ==
    IF Len(vals) < window
    THEN [idx \in 1..Len(vals) |-> np_sum(vals)]
    ELSE [idx \in 1..Len(vals) |-> np_sum(window_slice(vals, window, idx))]

\* the lists and windows the functions are called with
RollingValues == {1, 2, 4}
RollingWindows == {1, 2, FormWindow}

RECURSIVE ListsUpTo(_)
ListsUpTo(n) ==
    IF n = 0 THEN {<<>>}
    ELSE LET shorter == ListsUpTo(n - 1)
         IN  shorter \cup {Append(l, v) : l \in {q \in shorter : Len(q) = n - 1},
                                          v \in RollingValues}

InitRolling ==
    /\ db = <<>>
    /\ pc = "rolling"
    /\ matches_df = <<>>
    /\ finished_matches = <<>>
    /\ ratings = <<>>
    /\ elo_calls = <<>>
    /\ elo_ratings = <<>>
    /\ i = 0
    /\ X = <<>>
    /\ y_outcome = <<>>
    /\ y_xg_home = <<>>
    /\ y_xg_away = <<>>
    /\ ret = "pending"
    /\ success = "pending"
    /\ csv = NoFile
    /\ models = NoModels
    /\ previous = <<>>
    /\ runs = <<>>
    /\ snapshot = NoSnapshot
    /\ values \in ListsUpTo(MaxLen)

\* RollingStatistics.rolling_mean(values, window)
RollingMean(window) ==
    /\ pc = "rolling"
    /\ ret' = [op |-> "rolling_mean", window |-> window,
               result |-> rolling_mean(values, window)]
    /\ pc' = "rolled"
    /\ UNCHANGED <<db, matches_df, finished_matches, ratings, elo_calls, elo_ratings,
                   i, X, y_outcome, y_xg_home, y_xg_away, success, csv, models,
                   previous, runs, snapshot, values>>

\* RollingStatistics.rolling_std(values, window)
RollingStd(window) ==
    /\ pc = "rolling"
    /\ ret' = [op |-> "rolling_std", window |-> window,
               result |-> rolling_std(values, window)]
    /\ pc' = "rolled"
    /\ UNCHANGED <<db, matches_df, finished_matches, ratings, elo_calls, elo_ratings,
                   i, X, y_outcome, y_xg_home, y_xg_away, success, csv, models,
                   previous, runs, snapshot, values>>

\* RollingStatistics.rolling_sum(values, window)
RollingSum(window) ==
    /\ pc = "rolling"
    /\ ret' = [op |-> "rolling_sum", window |-> window,
               result |-> rolling_sum(values, window)]
    /\ pc' = "rolled"
    /\ UNCHANGED <<db, matches_df, finished_matches, ratings, elo_calls, elo_ratings,
                   i, X, y_outcome, y_xg_home, y_xg_away, success, csv, models,
                   previous, runs, snapshot, values>>

NextRolling ==
    \E window \in RollingWindows :
        RollingMean(window) \/ RollingStd(window) \/ RollingSum(window)

SpecRolling == InitRolling /\ [][NextRolling]_vars

-----------------------------------------------------------------------------
(* Properties of the Training Dataset Builder *)

\* the rows of frame dated strictly before date d, in the frame's order
Earlier(frame, d) ==
    LET IsEarlier(m) == m.date < d IN SelectSeq(frame, IsEarlier)

SharesTeam(m1, m2) == {m1.homeTeam, m1.awayTeam} \cap {m2.homeTeam, m2.awayTeam} # {}

FinishedRows == {k \in DOMAIN db : db[k].status = "FINISHED"}

Built == ret # "pending" /\ ret[1] # None

\* C1: the home_elo/away_elo/elo_diff features of the row of match i reflect
\* only the rating updates of the finished matches dated strictly before
\* match i (so the first match between two new teams carries 1500, 1500).
C1_PointInTimeRatings ==
    \A k \in 1..Len(X) :
        LET match == finished_matches[k]
            snap  == calculate_elo_ratings(Earlier(finished_matches, match.date))
            home  == elo_lookup(snap, match.homeTeam)
            away  == elo_lookup(snap, match.awayTeam)
        IN  /\ X[k][1] = home
            /\ X[k][2] = away
            /\ X[k][3] = home - away
            /\ (Earlier(finished_matches, match.date) = <<>> =>
                    /\ X[k][1] = 1500 * RatingScale
                    /\ X[k][2] = 1500 * RatingScale)

\* C2: the row of a match M2 carries the ratings that result from exactly
\* the updates of the earlier matches, whenever an earlier match M1 shares a
\* team with M2; the third of three meetings of the same two teams carries
\* the ratings after exactly the two prior updates.
C2_LaterRowReflectsEarlierUpdates ==
    \A k \in 1..Len(X) :
        LET match == finished_matches[k]
            prior == Earlier(finished_matches, match.date)
        IN  (\E j \in 1..Len(prior) : SharesTeam(prior[j], match)) =>
                LET after == elo_pass(<<>>, prior)
                IN  << X[k][1], X[k][2] >> =
                        << get_rating(after, match.homeTeam),
                           get_rating(after, match.awayTeam) >>

\* the rows of table d in ascending date order, rows of one date by id
Precedes(a, b) == a.date < b.date \/ (a.date = b.date /\ a.id < b.id)
RECURSIVE InsertByDate(_, _)
InsertByDate(row, s) ==
    IF s = <<>> THEN <<row>>
    ELSE IF Precedes(row, Head(s)) THEN <<row>> \o s
    ELSE <<Head(s)>> \o InsertByDate(row, Tail(s))
RECURSIVE SortByDate(_)
SortByDate(d) ==
    IF d = <<>> THEN <<>> ELSE InsertByDate(Head(d), SortByDate(Tail(d)))

StoredInDateOrder == \A k \in 1..(Len(db) - 1) : db[k].date <= db[k + 1].date

DistinctFinishedDates ==
    \A j, k \in FinishedRows : j # k => db[j].date # db[k].date

C4_UpdatesInDateOrder ==
    \A j \in 1..Len(elo_calls) :
        /\ \A k \in FinishedRows :
              db[k].date < elo_calls[j].date =>
                  \E e \in 1..(j - 1) : elo_calls[e].id = db[k].id
        /\ \A e \in 1..(j - 1) : elo_calls[e].date <= elo_calls[j].date

C4_Witness ==
    /\ ~StoredInDateOrder
    /\ pc = "features"
    /\ Len(elo_calls) = Cardinality(FinishedRows)
    /\ Len(elo_calls) >= 10

\* C5: with fewer than 10 finished matches the build returns the
\* insufficient-data result, builds no list and updates no rating; with 10
\* or more it returns a dataset with one row per finished match; scheduled
\* matches do not count.
C5_InsufficientDataBoundary ==
    /\ Cardinality(FinishedRows) < 10 =>
          /\ ratings = <<>> /\ elo_calls = <<>> /\ elo_ratings = <<>>
          /\ X = <<>> /\ y_outcome = <<>> /\ y_xg_home = <<>> /\ y_xg_away = <<>>
          /\ pc \in {"returned", "exit"} => ret = <<None, None, None, None>>
          /\ pc = "exit" => success = FALSE
    /\ Cardinality(FinishedRows) >= 10 =>
          /\ pc \in {"returned", "exit"} =>
                /\ \A f \in 1..4 : ret[f] # None /\ Len(ret[f]) = Cardinality(FinishedRows)
          /\ pc = "exit" => success = TRUE

C5_Witness ==
    /\ pc = "exit"
    /\ Cardinality(FinishedRows) = 9
    /\ Len(db) = 10
    /\ ret = <<None, None, None, None>>
    /\ success = FALSE

-----------------------------------------------------------------------------
(* Properties of the rating engine and of the outcome rules *)

ActualA(score_a, score_b) ==
    IF score_a > score_b THEN ProbScale
    ELSE IF score_a = score_b THEN ProbScale \div 2
    ELSE 0

\* the rating p.mmm (points and thousandths) in rating units
Milli(p, mmm) == p * RatingScale + (mmm * RatingScale) \div 1000

Near(x, y, tol) == x - y <= tol /\ y - x <= tol

\* C6: update_ratings stores old + K * (actual - E) for both teams, E being
\* the expected score of team_a with the home advantage added to its stored
\* rating, and the advantage itself is never stored; from 1500/1500 with
\* advantage 100 a 2-1 result stores 1507.198 / 1492.802 within 0.01.
C6_UpdateRule ==
    \A j \in 1..Len(elo_calls) :
        LET c == elo_calls[j]
            E == expected_score(c.old_a + c.home_advantage, c.old_b)
            A == ActualA(c.score_a, c.score_b)
        IN  /\ c.stored_a = c.old_a + RatingDelta(A, E)
            /\ c.stored_b = c.old_b + RatingDelta(ProbScale - A, ProbScale - E)
            /\ ( /\ c.old_a = 1500 * RatingScale /\ c.old_b = 1500 * RatingScale
                 /\ c.home_advantage = 100 * RatingScale
                 /\ c.score_a = 2 /\ c.score_b = 1 ) =>
                   /\ Near(c.stored_a, Milli(1507, 198), RatingScale \div 100)
                   /\ Near(c.stored_b, Milli(1492, 802), RatingScale \div 100)

C6_Witness ==
    /\ Len(elo_calls) = 2
    /\ elo_calls[1].old_a = 1500 * RatingScale
    /\ elo_calls[1].home_advantage = 100 * RatingScale
    /\ elo_calls[1].score_a = 2 /\ elo_calls[1].score_b = 1
    /\ elo_calls[2].old_a # 1500 * RatingScale
    /\ elo_calls[2].home_advantage = 100 * RatingScale
    /\ ratings[elo_calls[2].team_a] = elo_calls[2].stored_a

StrictMax(x, y, z) == x > y /\ x > z

\* C7: the label is 0 iff homeWinProb is strictly the greatest of the three
\* fields, 2 iff awayWinProb is, and 1 otherwise: when drawProb is the
\* maximum and on every tie for the maximum (33/34/33 and all equal give 1).
C7_LabelRule ==
    \A k \in 1..Len(y_outcome) :
        LET m == finished_matches[k]
            h == m.homeWinProb
            d == m.drawProb
            a == m.awayWinProb
        IN  /\ y_outcome[k] \in {0, 1, 2}
            /\ y_outcome[k] = 0 <=> StrictMax(h, d, a)
            /\ y_outcome[k] = 2 <=> StrictMax(a, h, d)
            /\ (h = 33 /\ d = 34 /\ a = 33) => y_outcome[k] = 1
            /\ (h = d /\ d = a) => y_outcome[k] = 1

C7_Witness ==
    /\ pc = "exit"
    /\ \E k \in 1..Len(y_outcome) :
          /\ y_outcome[k] = 1
          /\ finished_matches[k].homeWinProb = finished_matches[k].drawProb
          /\ finished_matches[k].homeWinProb > finished_matches[k].awayWinProb
    /\ \E k \in 1..Len(y_outcome) :
          /\ y_outcome[k] = 1
          /\ finished_matches[k].homeWinProb = 33
          /\ finished_matches[k].drawProb = 34
    /\ \E k \in 1..Len(y_outcome) : y_outcome[k] = 0
    /\ \E k \in 1..Len(y_outcome) : y_outcome[k] = 2

\* C8: for every finished match the result fed to the rating update (2-1,
\* 1-1, 1-2) is the outcome of its training label (0, 1, 2).
C8_RatingsAndLabelsAgree ==
    \A k \in 1..Len(y_outcome) :
        \E j \in 1..Len(elo_calls) :
            /\ elo_calls[j].id = finished_matches[k].id
            /\ << elo_calls[j].home_score, elo_calls[j].away_score >> =
                  CASE y_outcome[k] = 0 -> <<2, 1>>
                    [] y_outcome[k] = 1 -> <<1, 1>>
                    [] y_outcome[k] = 2 -> <<1, 2>>

C8_Witness ==
    /\ pc = "exit"
    /\ Built
    /\ \E k \in 1..Len(y_outcome) :
          /\ y_outcome[k] = 1
          /\ finished_matches[k].drawProb > finished_matches[k].homeWinProb
          /\ finished_matches[k].homeWinProb > finished_matches[k].awayWinProb
          /\ \E j \in 1..Len(elo_calls) :
                /\ elo_calls[j].id = finished_matches[k].id
                /\ elo_calls[j].home_score = elo_calls[j].away_score

\* the teams (one or none) the label rule names as winner of a match
LabelWinner(m) ==
    IF StrictMax(m.homeWinProb, m.drawProb, m.awayWinProb) THEN {m.homeTeam}
    ELSE IF StrictMax(m.awayWinProb, m.homeWinProb, m.drawProb) THEN {m.awayTeam}
    ELSE {}

\* the earlier finished meetings of the two teams of match k
Meetings(k) ==
    {j \in 1..Len(finished_matches) :
        /\ {finished_matches[j].homeTeam, finished_matches[j].awayTeam} =
              {finished_matches[k].homeTeam, finished_matches[k].awayTeam}
        /\ finished_matches[j].date < finished_matches[k].date
        /\ finished_matches[j].status = "FINISHED"}

\* C9: head-to-head counts a meeting as a draw exactly when the label rule
\* gives draw for it, and otherwise as a win of the team the label rule names.
C9_H2HUsesLabelRule ==
    \A k \in 1..Len(X) :
        LET m == finished_matches[k]
            Won(winner) == Cardinality({j \in Meetings(k) :
                                           LabelWinner(finished_matches[j]) = winner})
        IN  /\ X[k][10] = Won({m.homeTeam})
            /\ X[k][11] = Won({})
            /\ X[k][12] = Won({m.awayTeam})

\* the form points of a team for a match under the label rule
LabelPoints(team, m) ==
    IF LabelWinner(m) = {} THEN 1
    ELSE IF LabelWinner(m) = {team} THEN 3
    ELSE 0

LabelForm(team, k) ==
    LET w == form_window(team, finished_matches, finished_matches[k].date, 5)
        pts == [q \in 1..Len(w) |-> LabelPoints(team, w[q])]
    IN  IF Len(w) = 0 THEN (3 * MeanScale) \div 2
        ELSE (MeanScale * SumSeq(pts)) \div Len(w)

\* C10: the form of a team is the mean, over its windowed matches, of 3
\* points where the label rule gives the team's side the win, 1 where it
\* gives draw and 0 where it gives the opponent the win.
C10_FormUsesLabelRule ==
    \A k \in 1..Len(X) :
        /\ X[k][4] = LabelForm(finished_matches[k].homeTeam, k)
        /\ X[k][5] = LabelForm(finished_matches[k].awayTeam, k)

-----------------------------------------------------------------------------
(* Properties of the form and head-to-head aggregators *)

Queried(op) == pc = "queried" /\ ret.op = op

\* a match with the outcome fields of the two sides exchanged and changed
Altered(m) ==
    [m EXCEPT !.homeWinProb = m.awayWinProb, !.awayWinProb = m.homeWinProb,
              !.homeXg = m.awayXg + 1, !.awayXg = m.homeXg + 1]

\* the frame with every match dated d or later altered
LaterAltered(frame, d) ==
    [k \in DOMAIN frame |-> IF frame[k].date >= d THEN Altered(frame[k]) ELSE frame[k]]

Plays(team, m) == m.homeTeam = team \/ m.awayTeam = team

\* C11: the form and head-to-head results for a reference date depend only on
\* the matches dated strictly before it: they are the results obtained when
\* every match dated on or after the reference date (a match played on the
\* reference date itself included) is removed from the history, and when its
\* outcome fields are changed; no such match is among the rows used.
C11_OnlyEarlierMatchesCount ==
    /\ Queried("calculate_team_form") =>
          LET d == ret.before_date
          IN  /\ \A k \in DOMAIN ret.team_matches : ret.team_matches[k].date < d
              /\ ret.result = calculate_team_form(ret.team, Earlier(matches_df, d), d,
                                                  ret.n_matches)
              /\ ret.result = calculate_team_form(ret.team, LaterAltered(matches_df, d),
                                                  d, ret.n_matches)
    /\ Queried("calculate_h2h_stats") =>
          LET d == ret.before_date
          IN  /\ \A k \in DOMAIN ret.h2h : ret.h2h[k].date < d
              /\ ret.result = calculate_h2h_stats(ret.home_team, ret.away_team,
                                                  Earlier(matches_df, d), d)
              /\ ret.result = calculate_h2h_stats(ret.home_team, ret.away_team,
                                                  LaterAltered(matches_df, d), d)

\* the form of a team is asked for the date of one of its finished matches,
\* which has the same date as another of its matches, with earlier matches used
C11_Witness ==
    /\ Queried("calculate_team_form")
    /\ ret.team_matches # <<>>
    /\ \E j, k \in DOMAIN matches_df :
          /\ j # k
          /\ matches_df[j].date = ret.before_date
          /\ matches_df[k].date = ret.before_date
          /\ IsFinished(matches_df[j]) /\ IsFinished(matches_df[k])
          /\ Plays(ret.team, matches_df[j]) /\ Plays(ret.team, matches_df[k])

\* the history without its matches that are not finished
WithoutScheduled(d) ==
    LET Played(m) == m.status = "FINISHED" IN SelectSeq(d, Played)

AllPlayed(frame) == \A k \in DOMAIN frame : frame[k].status = "FINISHED"

\* C12: only finished matches contribute.  In a build, every rating update is
\* for a finished match, the rows built are as many as the finished matches,
\* and the ratings and the arrays returned are ratings and arrays of the
\* history with its unfinished matches removed; in a query, the rows used by
\* the form and head-to-head aggregators are finished matches and the result
\* is the result on the history with its unfinished matches removed.
C12_OnlyFinishedMatchesContribute ==
    /\ pc \in {"elo", "features", "returned", "exit"} =>
          /\ \A c \in DOMAIN elo_calls :
                \E k \in FinishedRows : db[k].id = elo_calls[c].id
          /\ Len(elo_calls) <= Cardinality(FinishedRows)
          /\ Len(X) <= Cardinality(FinishedRows)
    /\ pc = "features" =>
          elo_ratings \in { calculate_elo_ratings(f) :
                              f \in fetch_matches(WithoutScheduled(db)) }
    /\ pc \in {"returned", "exit"} =>
          /\ ret \in { prepare_from(f) : f \in fetch_matches(WithoutScheduled(db)) }
          /\ Built => Len(ret[1]) = Cardinality(FinishedRows)
    /\ Queried("calculate_team_form") =>
          /\ AllPlayed(ret.team_matches)
          /\ ret.result = calculate_team_form(ret.team, WithoutScheduled(matches_df),
                                              ret.before_date, ret.n_matches)
    /\ Queried("calculate_h2h_stats") =>
          /\ AllPlayed(ret.h2h)
          /\ ret.result = calculate_h2h_stats(ret.home_team, ret.away_team,
                                              WithoutScheduled(matches_df),
                                              ret.before_date)

\* a dataset was built from a history that holds a match not yet played
C12_Witness ==
    /\ pc = "exit"
    /\ Built
    /\ \E k \in DOMAIN db : db[k].status = "SCHEDULED"
    /\ Len(ret[1]) = Len(db) - 1

\* the positions in matches_df of the matches that qualify for the form of a
\* team at reference date d: finished, played by the team, dated before d
Qualifying(team, d) ==
    {k \in DOMAIN matches_df : /\ Plays(team, matches_df[k])
                               /\ matches_df[k].status = "FINISHED"
                               /\ matches_df[k].date < d}

UsedIds(rows) == {rows[k].id : k \in DOMAIN rows}

Min(a, b) == IF a <= b THEN a ELSE b

\* C13: the form window holds the most recent matches.  With q qualifying
\* matches, the aggregator uses exactly min(n_matches, q) of them, each once,
\* and every match used is dated no earlier than every qualifying match that
\* is not used.
C13_WindowIsMostRecent ==
    Queried("calculate_team_form") =>
       LET Q    == Qualifying(ret.team, ret.before_date)
           used == UsedIds(ret.team_matches)
       IN  /\ Len(ret.team_matches) = Min(ret.n_matches, Cardinality(Q))
           /\ Cardinality(used) = Len(ret.team_matches)
           /\ used \subseteq {matches_df[k].id : k \in Q}
           /\ \A u \in DOMAIN ret.team_matches :
                 \A k \in Q : matches_df[k].id \notin used =>
                                 ret.team_matches[u].date >= matches_df[k].date

\* more matches qualify than the default window holds
C13_Witness ==
    /\ Queried("calculate_team_form")
    /\ ret.n_matches = FormWindow
    /\ Cardinality(Qualifying(ret.team, ret.before_date)) > FormWindow + 1
    /\ Len(ret.team_matches) = FormWindow

\* C14: head-to-head is symmetric under exchanging the two teams: for the same
\* history and reference date the first count of h2h(A, B) is the third count
\* of h2h(B, A), the third count of h2h(A, B) is the first count of h2h(B, A),
\* and the draw counts are equal.
C14_H2HSymmetry ==
    Queried("calculate_h2h_stats") =>
       LET reversed == calculate_h2h_stats(ret.away_team, ret.home_team, matches_df,
                                           ret.before_date)
       IN  /\ ret.result.home_wins = reversed.away_wins
           /\ ret.result.away_wins = reversed.home_wins
           /\ ret.result.draws = reversed.draws

\* the pair met at both venues, the first team won a meeting it played away,
\* and the two win counts differ
C14_Witness ==
    /\ Queried("calculate_h2h_stats")
    /\ ret.result.home_wins # ret.result.away_wins
    /\ \E j, k \in DOMAIN ret.h2h :
          /\ ret.h2h[j].homeTeam = ret.home_team
          /\ ret.h2h[k].awayTeam = ret.home_team
          /\ ret.h2h[k].awayWinProb > ret.h2h[k].homeWinProb

\* the positions in matches_df of the finished meetings of exactly the pair
\* x, y dated before d
PairMeetings(x, y, d) ==
    {k \in DOMAIN matches_df :
        /\ {matches_df[k].homeTeam, matches_df[k].awayTeam} = {x, y}
        /\ x # y
        /\ matches_df[k].status = "FINISHED"
        /\ matches_df[k].date < d}

\* the team given the greater win probability in match m, if any
Stronger(m) ==
    IF m.homeWinProb > m.awayWinProb THEN {m.homeTeam}
    ELSE IF m.awayWinProb > m.homeWinProb THEN {m.awayTeam}
    ELSE {}

\* C15: head-to-head wins go to the team, not to the side.  For
\* h2h(team_x, team_y) the rows counted are the finished earlier meetings of
\* exactly that pair; the first count is the number of them won by team_x, at
\* home or away, and the third the number won by team_y; in particular a
\* meeting whose label is a win of team_x goes to the first count and one whose
\* label is a win of team_y to the third.
C15_H2HCreditsTheTeam ==
    Queried("calculate_h2h_stats") =>
       LET x == ret.home_team
           y == ret.away_team
           M == PairMeetings(x, y, ret.before_date)
       IN  /\ UsedIds(ret.h2h) = {matches_df[k].id : k \in M}
           /\ Len(ret.h2h) = Cardinality(M)
           /\ ret.result.home_wins =
                 Cardinality({k \in M : Stronger(matches_df[k]) = {x}})
           /\ ret.result.away_wins =
                 Cardinality({k \in M : Stronger(matches_df[k]) = {y}})
           /\ ret.result.home_wins + ret.result.draws + ret.result.away_wins
                 = Cardinality(M)
           /\ \A k \in DOMAIN ret.h2h :
                 /\ LabelWinner(ret.h2h[k]) = {x} => h2h_side(x, ret.h2h[k]) = "home_wins"
                 /\ LabelWinner(ret.h2h[k]) = {y} => h2h_side(x, ret.h2h[k]) = "away_wins"

\* team_x won a meeting away and team_y won a meeting away, and team_x also
\* played a third team before the reference date
C15_Witness ==
    /\ Queried("calculate_h2h_stats")
    /\ \E j, k \in DOMAIN ret.h2h :
          /\ ret.h2h[j].awayTeam = ret.home_team
          /\ LabelWinner(ret.h2h[j]) = {ret.home_team}
          /\ ret.h2h[k].awayTeam = ret.away_team
          /\ LabelWinner(ret.h2h[k]) = {ret.away_team}
    /\ \E k \in DOMAIN matches_df :
          /\ Plays(ret.home_team, matches_df[k])
          /\ ~Plays(ret.away_team, matches_df[k])
          /\ matches_df[k].status = "FINISHED"
          /\ matches_df[k].date < ret.before_date

\* C16: defaults on empty history.  A form query with no qualifying match
\* returns exactly form 1.5, goals 5, xg 5.0, possession 50, and a head-to-head
\* query with no qualifying meeting returns zero for all three counts.
C16_DefaultsOnEmptyHistory ==
    /\ (Queried("calculate_team_form") /\ Qualifying(ret.team, ret.before_date) = {}) =>
          /\ 2 * ret.result.form = 3 * MeanScale
          /\ ret.result.goals = 5
          /\ ret.result.xg = 5 * XgScale
          /\ ret.result.possession = 50 * MeanScale
    /\ (Queried("calculate_h2h_stats")
           /\ PairMeetings(ret.home_team, ret.away_team, ret.before_date) = {}) =>
          ret.result = [home_wins |-> 0, draws |-> 0, away_wins |-> 0]

\* the form of a team is asked for a date on which it has no earlier finished
\* match, although it plays in the history
C16_Witness ==
    /\ Queried("calculate_team_form")
    /\ Qualifying(ret.team, ret.before_date) = {}
    /\ \E k \in DOMAIN matches_df : Plays(ret.team, matches_df[k])
    /\ ret.result.goals = 5

\* the expected goals of the side team played on in match m
OwnXg(team, m) == IF m.homeTeam = team THEN m.homeXg ELSE m.awayXg

\* C17: form takes the team's side of each match.  Over the window used, side
\* decided match by match: the xg total is the sum of the home expected goals
\* of the matches the team played at home and the away expected goals of those
\* it played away; goals is that total truncated to a whole number; possession
\* is the mean of 55 for each home match and 45 for each away match, and lies
\* in [45, 55].
C17_FormTakesTheTeamsSide ==
    Queried("calculate_team_form") =>
       LET w     == ret.team_matches
           n     == Len(w)
           homes == Cardinality({k \in 1..n : w[k].homeTeam = ret.team})
           total == SumSeq([k \in 1..n |-> OwnXg(ret.team, w[k])])
       IN  /\ n > 0 =>
                /\ ret.result.xg = total
                /\ ret.result.goals * XgScale <= total
                /\ total < (ret.result.goals + 1) * XgScale
                /\ n * ret.result.possession = MeanScale * (55 * homes + 45 * (n - homes))
           /\ ret.result.possession >= 45 * MeanScale
           /\ ret.result.possession <= 55 * MeanScale

\* the window holds a home match and an away match of the team, and the xg
\* total is not a whole number of goals
C17_Witness ==
    /\ Queried("calculate_team_form")
    /\ \E j, k \in DOMAIN ret.team_matches :
          /\ ret.team_matches[j].homeTeam = ret.team
          /\ ret.team_matches[k].awayTeam = ret.team
          /\ ret.team_matches[k].homeXg # ret.team_matches[k].awayXg
    /\ ret.result.goals * XgScale < ret.result.xg
    /\ ret.result.possession > 45 * MeanScale
    /\ ret.result.possession < 55 * MeanScale

-----------------------------------------------------------------------------
(* Properties of the feature schema *)

\* C18: every row the Dataset Builder produces has exactly 18 features in the
\* order home_elo, away_elo, elo_diff, home_form, away_form, home_goals,
\* away_goals, home_xg, away_xg, h2h_home_wins, h2h_draws, h2h_away_wins,
\* home_possession, away_possession, venue_advantage, stage_importance,
\* home_rest_days, away_rest_days, which is the order of the columns written;
\* elo_diff = home_elo - away_elo, venue_advantage = 1, stage_importance = 8,
\* both rest-day fields = 4, and each home (away) slot holds the value computed
\* for the home (away) team of the row's match.
C18_FixedFeatureOrder ==
    /\ \A k \in DOMAIN X :
          LET match == finished_matches[k]
              row   == X[k]
              home  == calculate_team_form(match.homeTeam, finished_matches,
                                           match.date, FormWindow)
              away  == calculate_team_form(match.awayTeam, finished_matches,
                                           match.date, FormWindow)
              h2h   == calculate_h2h_stats(match.homeTeam, match.awayTeam,
                                           finished_matches, match.date)
          IN  /\ Len(row) = 18
              /\ row[1] = elo_lookup(elo_ratings, match.homeTeam)
              /\ row[2] = elo_lookup(elo_ratings, match.awayTeam)
              /\ row[3] = row[1] - row[2]
              /\ row[4] = home.form        /\ row[5] = away.form
              /\ row[6] = home.goals       /\ row[7] = away.goals
              /\ row[8] = home.xg          /\ row[9] = away.xg
              /\ row[10] = h2h.home_wins   /\ row[11] = h2h.draws
              /\ row[12] = h2h.away_wins
              /\ row[13] = home.possession /\ row[14] = away.possession
              /\ row[15] = 1 /\ row[16] = 8 /\ row[17] = 4 /\ row[18] = 4
    /\ csv.exists =>
          /\ SubSeq(csv.columns, 1, 18) =
                << "home_elo", "away_elo", "elo_diff",
                   "home_form_last5", "away_form_last5",
                   "home_goals_last5", "away_goals_last5",
                   "home_xg_last5", "away_xg_last5",
                   "h2h_home_wins", "h2h_draws", "h2h_away_wins",
                   "home_possession_avg", "away_possession_avg",
                   "venue_advantage", "stage_importance",
                   "home_rest_days", "away_rest_days" >>
          /\ \A k \in DOMAIN csv.rows : SubSeq(csv.rows[k], 1, 18) = X[k]

\* the data were saved, and in some row the two teams differ in rating, form,
\* goals, xg and possession, and have met before
C18_Witness ==
    /\ pc = "exit"
    /\ csv.exists
    /\ \E k \in DOMAIN X :
          /\ X[k][1] # X[k][2]
          /\ X[k][4] # X[k][5]
          /\ X[k][6] # X[k][7]
          /\ X[k][8] # X[k][9]
          /\ X[k][10] # X[k][12]
          /\ X[k][13] # X[k][14]

\* C19: training and inference use the same feature schema.  Whichever script
\* fitted them, the columns of the outcome model are, in number and order, the
\* feature names its prepare_features uses, and so are the columns of the two
\* xG models; and the real-data trainer finds every column it reads in the
\* file the extractor wrote.
C19_TrainingSchemaIsInferenceSchema ==
    /\ models.outcome # <<>> => models.outcome = outcome_feature_names
    /\ models.xg_home # <<>> => models.xg_home = xg_feature_names
    /\ models.xg_away # <<>> => models.xg_away = xg_feature_names
    /\ (models.entry = "train_real_data" /\ csv.writer = "data_extraction") =>
          /\ Names(feature_columns) \subseteq Names(csv.columns)
          /\ models.result # "KeyError"

\* C20: the feature-name lists are in lock-step.  The 12 names of the xG
\* models are the first 12 of the outcome model's 23, the 18 names the
\* extractor writes are the first 18 of the 23 and head the file it writes,
\* and when the real-data trainer has fitted the models, the xG models were
\* fitted on exactly the xG feature names, the first 12 columns of X.
C20_FeatureListsInLockStep ==
    /\ Len(outcome_feature_names) = 23
    /\ Len(xg_feature_names) = 12
    /\ Len(extractor_feature_names) = 18
    /\ xg_feature_names = SubSeq(outcome_feature_names, 1, 12)
    /\ extractor_feature_names = SubSeq(outcome_feature_names, 1, 18)
    /\ csv.writer = "data_extraction" =>
          SubSeq(csv.columns, 1, 18) = SubSeq(outcome_feature_names, 1, 18)
    /\ (models.entry = "train_real_data" /\ models.result = "True") =>
          /\ models.outcome = outcome_feature_names
          /\ models.xg_home = xg_feature_names
          /\ models.xg_away = xg_feature_names
          /\ models.xg_home = SubSeq(models.outcome, 1, 12)

\* the real-data trainer fitted the three models and a request was served
C20_Witness ==
    /\ pc = "served"
    /\ models.entry = "train_real_data"
    /\ models.result = "True"
    /\ models.xg_home # <<>>
    /\ models.prediction = "ok"

-----------------------------------------------------------------------------
(* C21..C30 *)

\* the finished rows of a frame, in the order the query returned them
FinishedOf(frame) == SelectSeq(frame, IsFinished)

\* a later call of prepare_training_data has returned
BuiltAgain == pc = "returned" /\ previous # <<>>

Referenced(r, S) ==
    [t \in DOMAIN r \cup S |->
        IF t \in DOMAIN r THEN r[t] ELSE InitialRating * RatingScale]

\* the step is a call of update_ratings, of get_rating, or one that concerns
\* the mapping the caller holds
IsUpdateStep == elo_calls' # elo_calls
IsGetRatingStep == elo_calls' = elo_calls /\ snapshot' = snapshot /\ i' = i + 1
IsMappingStep == snapshot' # snapshot

\* the update_ratings call that has just been logged
LastCall == elo_calls'[Len(elo_calls')]

\* C22: unknown teams default lazily.  A fresh engine holds no team; get_rating
\* and update_ratings on a team never referenced before work with the initial
\* rating 1500 for it; a team enters the mapping of all ratings only through
\* the call that first references it; and the lookup get(team, 1500) of a team
\* absent from the handed-out mapping yields 1500.
C22_LazyDefault ==
    /\ i = 0 => DOMAIN get_all_ratings(ratings) = {}
    /\ IsUpdateStep =>
          LET c == LastCall
          IN  /\ c.team_a \notin DOMAIN ratings
                    => c.old_a = InitialRating * RatingScale
              /\ c.team_b \notin DOMAIN ratings
                    => c.old_b = InitialRating * RatingScale
              /\ ret' = new_ratings(Referenced(ratings, {c.team_a, c.team_b}),
                                    c.team_a, c.team_b, c.score_a, c.score_b,
                                    c.home_advantage)
              /\ DOMAIN ratings' = DOMAIN ratings \cup {c.team_a, c.team_b}
    /\ IsGetRatingStep =>
          \E team \in Teams :
              /\ ratings' = Referenced(ratings, {team})
              /\ ret' = ratings'[team]
    /\ IsMappingStep =>
          /\ DOMAIN ratings' = DOMAIN ratings
          /\ snapshot.calls = <<>> /\ snapshot'.calls = <<>>
                => DOMAIN snapshot'.items = DOMAIN ratings
          /\ snapshot'.calls # snapshot.calls =>
                LET c == snapshot'.calls[Len(snapshot'.calls)]
                IN  c.op = "get" /\ c.team \notin DOMAIN snapshot.items
                        => c.value = 1500 * RatingScale

C22_UnknownTeamsDefaultLazily == [][C22_LazyDefault]_vars

\* a team referenced only by get_rating holds the initial rating and is the
\* one team of the mapping handed out afterwards
C22_Witness ==
    /\ snapshot.taken
    /\ \E team \in Teams :
          /\ DOMAIN ratings = {team}
          /\ DOMAIN snapshot.items = {team}
          /\ ratings[team] = InitialRating * RatingScale
    /\ elo_calls = <<>>

\* C23: rating state is owned by one pass.  Each call of calculate_elo_ratings
\* works on the engine it constructed: however the steps of two calls
\* interleave, no step of one call changes the engine of the other, and each
\* call returns the ratings it returns when it runs alone on its frame.
C23_RunsAreIsolated ==
    \A k \in DOMAIN runs :
        /\ runs[k].at = "returned"
              => runs[k].result = calculate_elo_ratings(runs[k].frame)
        /\ runs[k].at = "loop"
              => runs[k].elo = elo_pass(<<>>, SubSeq(runs[k].frame, 1, runs[k].i - 1))

\* both calls are inside their loops, each with updates made, and the two
\* engines hold different ratings
C23_Witness ==
    /\ runs # <<>>
    /\ \A k \in DOMAIN runs : runs[k].at = "loop" /\ runs[k].i > 1
    /\ runs[1].elo # runs[2].elo

\* C24: the core never mutates its input.  Every step of calculate_elo_ratings
\* and of the feature loop, and every call of calculate_team_form and
\* calculate_h2h_stats, leaves the table and the frames it was given as they
\* were, row by row and field by field; the feature loop and the two queries
\* also leave the rating map as it was.
C24_InputsUnchanged ==
    /\ pc \in {"elo", "features", "fetched"} =>
          /\ db' = db
          /\ matches_df' = matches_df
          /\ finished_matches' = finished_matches
    /\ pc \in {"features", "fetched"} =>
          /\ elo_ratings' = elo_ratings
          /\ ratings' = ratings

C24_CoreNeverMutatesInput == [][C24_InputsUnchanged]_vars

\* inside the feature loop, rows built with ratings in the map, the frame is
\* still what the query returned and the map what the ELO pass returned
C24_Witness ==
    /\ pc = "features"
    /\ X # <<>>
    /\ matches_df \in fetch_matches(db)
    /\ finished_matches = FinishedOf(matches_df)
    /\ elo_ratings # <<>>
    /\ elo_ratings = calculate_elo_ratings(finished_matches)

\* the sum of the ratings of the teams the engine holds
SumOfRatings(r) ==
    SumSeq([t \in 1..NumTeams |-> IF t \in DOMAIN r THEN r[t] ELSE 0])

\* C25: ELO is zero-sum.  Every update between two different teams leaves the
\* sum of their two stored ratings as it was, so after any sequence of calls
\* the ratings of the referenced teams add up to their number times the
\* initial rating, whatever the scores and the home advantage.
C25_ZeroSum ==
    /\ \A k \in 1..Len(elo_calls) :
          elo_calls[k].team_a # elo_calls[k].team_b
              => elo_calls[k].old_a + elo_calls[k].old_b
                    = elo_calls[k].stored_a + elo_calls[k].stored_b
    /\ SumOfRatings(ratings)
          = Cardinality(DOMAIN ratings) * InitialRating * RatingScale

\* two updates, the later one with a home advantage, have moved every one of
\* three teams off the initial rating
C25_Witness ==
    /\ Len(elo_calls) = 2
    /\ elo_calls[2].home_advantage # 0
    /\ Cardinality(DOMAIN ratings) = 3
    /\ \A t \in DOMAIN ratings : ratings[t] # InitialRating * RatingScale

\* C26: update_ratings changes the stored rating of team_a and of team_b and
\* of no other team, and for two different teams it returns the pair it
\* stored; get_rating and get_all_ratings change the rating of no team.
C26_Frame ==
    /\ IsUpdateStep =>
          LET c == LastCall
          IN  /\ \A t \in DOMAIN ratings \ {c.team_a, c.team_b} :
                    t \in DOMAIN ratings' /\ ratings'[t] = ratings[t]
              /\ DOMAIN ratings' \subseteq DOMAIN ratings \cup {c.team_a, c.team_b}
              /\ c.team_a # c.team_b
                    => ret' = <<ratings'[c.team_a], ratings'[c.team_b]>>
    /\ IsGetRatingStep =>
          \A t \in Teams :
              /\ t \in DOMAIN ratings => t \in DOMAIN ratings' /\ ratings'[t] = ratings[t]
              /\ t \in DOMAIN ratings' \ DOMAIN ratings
                    => ratings'[t] = InitialRating * RatingScale
    /\ ~snapshot.taken /\ snapshot'.taken => ratings' = ratings

C26_UpdateTouchesOnlyItsTeams == [][C26_Frame]_vars

\* a second update has been made while a third team held a rating it had
\* earned before
C26_Witness ==
    /\ Len(elo_calls) = 2
    /\ \E t \in DOMAIN ratings \ {elo_calls[2].team_a, elo_calls[2].team_b} :
          ratings[t] # InitialRating * RatingScale

\* C27: output alignment.  X, y_outcome, y_xg_home and y_xg_away have one
\* length, the number of finished matches; entry k of each comes from the k-th
\* finished match in the order of the frame; every label is 0, 1 or 2; and
\* y_xg_home[k], y_xg_away[k] are the homeXg and awayXg of that match.
C27_OutputAlignment ==
    /\ pc = "features" =>
          /\ Len(X) = i - 1
          /\ Len(y_outcome) = Len(X)
          /\ Len(y_xg_home) = Len(X)
          /\ Len(y_xg_away) = Len(X)
    /\ pc \in {"returned", "exit"} /\ Built =>
          /\ finished_matches = FinishedOf(matches_df)
          /\ \A j \in 1..4 : Len(ret[j]) = Cardinality(FinishedRows)
          /\ \A k \in 1..Len(finished_matches) :
                /\ ret[1][k] = feature_row(finished_matches[k], finished_matches,
                                           elo_ratings)
                /\ ret[2][k] \in {0, 1, 2}
                /\ ret[2][k] = outcome_label(finished_matches[k])
                /\ ret[3][k] = finished_matches[k].homeXg
                /\ ret[4][k] = finished_matches[k].awayXg

\* arrays returned for a table with a match still to be played, whose
\* finished matches differ in their goal targets and carry all three labels
C27_Witness ==
    /\ pc = "returned"
    /\ Built
    /\ Len(ret[1]) < Len(matches_df)
    /\ {ret[2][k] : k \in 1..Len(ret[2])} = {0, 1, 2}
    /\ \E k \in 1..Len(ret[3]) : ret[3][k] # ret[4][k]

\* C28: the head-to-head counts partition the meetings.  home_wins + draws +
\* away_wins is the number of finished meetings of exactly the queried pair
\* dated strictly before the reference date, and every such meeting is counted
\* in exactly one of the three: a meeting with a stronger side in one of the
\* win counts, a level meeting in draws.
C28_H2HCountsPartitionMeetings ==
    Queried("calculate_h2h_stats") =>
       LET x == ret.home_team
           y == ret.away_team
           M == PairMeetings(x, y, ret.before_date)
           won_x == {k \in M : Stronger(matches_df[k]) = {x}}
           won_y == {k \in M : Stronger(matches_df[k]) = {y}}
           level == {k \in M : Stronger(matches_df[k]) = {}}
       IN  /\ ret.result.home_wins + ret.result.draws + ret.result.away_wins
                 = Cardinality(M)
           /\ won_x \cup won_y \cup level = M
           /\ won_x \cap won_y = {} /\ won_x \cap level = {} /\ won_y \cap level = {}
           /\ ret.result.home_wins = Cardinality(won_x)
           /\ ret.result.draws = Cardinality(level)
           /\ ret.result.away_wins = Cardinality(won_y)

\* a pair with a meeting in each of the three counts, asked for at a date
\* that leaves a later meeting of the pair out
C28_Witness ==
    /\ Queried("calculate_h2h_stats")
    /\ ret.result.home_wins > 0
    /\ ret.result.draws > 0
    /\ ret.result.away_wins > 0
    /\ \E k \in DOMAIN matches_df :
          /\ {matches_df[k].homeTeam, matches_df[k].awayTeam}
                = {ret.home_team, ret.away_team}
          /\ matches_df[k].date >= ret.before_date

\* C29: get_all_ratings returns a snapshot.  What the caller sees in the
\* mapping it was handed is not changed by any later update_ratings or
\* get_rating call on the engine; and a write to that mapping, or a lookup in
\* it of a team it does not hold, changes nothing in the engine's ratings and
\* adds no team to them.
C29_Separate ==
    snapshot.taken =>
        /\ snapshot'.calls = snapshot.calls
              => items_of(snapshot', ratings') = items_of(snapshot, ratings)
        /\ snapshot'.calls # snapshot.calls
              => ratings' = ratings

C29_GetAllRatingsReturnsSnapshot == [][C29_Separate]_vars

\* an update made after the mapping was handed out: the engine has moved on,
\* the mapping holds what it held
C29_Witness ==
    /\ snapshot.taken
    /\ snapshot.calls = <<>>
    /\ elo_calls # <<>>
    /\ items_of(snapshot, ratings) # ratings
    /\ items_of(snapshot, ratings) = <<>>

\* the statistic a rolling function takes of a slice
StatisticOf(op, s) ==
    IF op = "rolling_mean" THEN np_mean(s)
    ELSE IF op = "rolling_std" THEN np_std(s)
    ELSE np_sum(s)

\* C30: rolling statistics are point-in-time safe.  For every list, every
\* window >= 1 and every index, the element of rolling_mean, rolling_sum and
\* rolling_std at that index is the statistic of the values from
\* max(0, i - window + 1) to i and of no later value, also when the list is
\* shorter than the window.
C30_RollingIsPointInTime ==
    pc = "rolled" =>
        /\ Len(ret.result) = Len(values)
        /\ \A idx \in 1..Len(values) :
              ret.result[idx]
                 = StatisticOf(ret.op, window_slice(values, ret.window, idx))

====
